---------------------------- MODULE Spec2Model ----------------------------
(***************************************************************************)
(* Threshold LWE decryption with additive sharing and an information-      *)
(* theoretic MAC: the arithmetic core (src/mpc) and the worker / message   *)
(* layer (src/network).                                                    *)
(*                                                                         *)
(* Vectors (DVector) are functions over 0..len-1, matrices (DMatrix) are   *)
(* functions over <<row, column>> pairs, an Option<T> is the empty         *)
(* sequence (None) or a one-element sequence (Some).                       *)
(***************************************************************************)
EXTENDS Integers, Sequences, FiniteSets, TLC

(***************************************************************************)
(* Bounds of the model: the command-line parameters of the run and the     *)
(* sizes of the input sets.                                                *)
(***************************************************************************)
NumParties == 3
CtxtBits == 3
PtxtBits == 1
DigitBits == 1
LweDimension == 1
MacSBits == 1
MacBatch == 2
MaxSecret == 5
MaxExponent == 3
MaxSeed == 1
ThreadCount == 2
JobsPerWorker == 2
MaxRound == 1
MaxEvents == 4
MaxBase == 4
MaxValue == 40
MaxDividend == 12
MaxDivisor == 6
MaxExtraIds == 1
MaxDeals == 1
MaxCtxtBits == 5
MaxDigitBits == 3
MaxInstances == 2

-----------------------------------------------------------------------------
(* Big-integer helpers (num_bigint / num_integer).                         *)

RECURSIVE Pow2(_)
Pow2(e) == IF e = 0 THEN 1 ELSE 2 * Pow2(e - 1)

mod_floor(x, modulus) == x % modulus

Abs(x) == IF x < 0 THEN -x ELSE x

\* BigInt division truncates toward zero; the remainder has the dividend's sign.
TruncDiv(x, y) == IF x >= 0 THEN x \div y ELSE -((-x) \div y)

TruncRem(x, y) == x - y * TruncDiv(x, y)

Min(x, y) == IF x < y THEN x ELSE y

RECURSIVE SumTo(_, _)
SumTo(v, len) == IF len = 0 THEN 0 ELSE v[len - 1] + SumTo(v, len - 1)

VecLen(v) == Cardinality(DOMAIN v)

VecSum(v) == SumTo(v, VecLen(v))

RECURSIVE DotTo(_, _, _)
DotTo(v, w, len) == IF len = 0 THEN 0 ELSE v[len - 1] * w[len - 1] + DotTo(v, w, len - 1)

Dot(v, w) == DotTo(v, w, VecLen(v))

Vectors(len, modulus) == [0..(len - 1) -> 0..(modulus - 1)]

\* The vector with every entry computed (DVector::from_fn, Iterator::collect).
collect(f) == f @@ <<>>

Some(x) == <<x>>

None == <<>>

-----------------------------------------------------------------------------
(* PublicParameters::init                                                  *)

\* init with the digit count rounded down.
PublicParameters_init_mutant(n, k, m, b, lwe_dimension, mac_s) ==
    LET l == k - m
        d == l \div b
    IN  [ n |-> n, k |-> k, m |-> m,
          q |-> Pow2(k), p |-> Pow2(m),
          l |-> l, big_l |-> Pow2(l),
          b |-> b, big_b |-> Pow2(b),
          d |-> d, big_d |-> Pow2(d + 1),
          lwe_dimension |-> lwe_dimension,
          mac_s |-> mac_s, mac_big_s |-> Pow2(mac_s),
          mac_k |-> k, mac_big_k |-> Pow2(k),
          mac_ks |-> k + mac_s, mac_big_ks |-> Pow2(k + mac_s) ]

PublicParameters_init(n, k, m, b, lwe_dimension, mac_s) ==
    LET l == k - m
        d == (l + b - 1) \div b
    IN  [ n |-> n, k |-> k, m |-> m,
          q |-> Pow2(k), p |-> Pow2(m),
          l |-> l, big_l |-> Pow2(l),
          b |-> b, big_b |-> Pow2(b),
          d |-> d, big_d |-> Pow2(d + 1),
          lwe_dimension |-> lwe_dimension,
          mac_s |-> mac_s, mac_big_s |-> Pow2(mac_s),
          mac_k |-> k, mac_big_k |-> Pow2(k),
          mac_ks |-> k + mac_s, mac_big_ks |-> Pow2(k + mac_s) ]

params == PublicParameters_init(NumParties, CtxtBits, PtxtBits, DigitBits, LweDimension, MacSBits)

PartyIds == 0..(params.n - 1)

-----------------------------------------------------------------------------
(* The outcomes of the random number generator.  A uniform draw in         *)
(* [0, 2^e) is an input; the protocol-level specifications take the draws  *)
(* of one run from a stream selected by a seed, the specifications of the  *)
(* single functions enumerate every draw.                                  *)

Draw(seed, idx, e) == (seed * (2 * idx + 1) + idx) % Pow2(e)

DrawVec(seed, base, len, e) == [i \in 0..(len - 1) |-> Draw(seed, base + i, e)]

-----------------------------------------------------------------------------
(* AdditiveSecretSharing                                                   *)

\* A plausible slip: the last share adds the sum of the others.
share_mutant(secret, num_shares, ring_exponent, rnd) ==
    LET q == Pow2(ring_exponent)
        shares == [i \in 0..(num_shares - 1) |-> IF i < num_shares - 1 THEN rnd[i] ELSE 0]
        sum == VecSum(shares)
        last_share == mod_floor(secret + sum, q)
    IN  [shares EXCEPT ![num_shares - 1] = last_share]

\* share with a sampler that returns only the lower half of the ring.
share_biased_mutant(secret, num_shares, ring_exponent, rnd) ==
    LET q == Pow2(ring_exponent)
        shares == [i \in 0..(num_shares - 1) |-> IF i < num_shares - 1 THEN rnd[i] \div 2 ELSE 0]
        sum == VecSum(shares)
        last_share == mod_floor(secret - sum, q)
    IN  [shares EXCEPT ![num_shares - 1] = last_share]

\* rnd[i], i < num_shares - 1, are the values the sampler returns.
share(secret, num_shares, ring_exponent, rnd) ==
    LET q == Pow2(ring_exponent)
        shares == [i \in 0..(num_shares - 1) |-> IF i < num_shares - 1 THEN rnd[i] ELSE 0]
        sum == VecSum(shares)
        last_share == mod_floor(secret - sum, q)
    IN  [shares EXCEPT ![num_shares - 1] = last_share]

reveal(shares, ring_exponent) ==
    LET q == Pow2(ring_exponent)
    IN  mod_floor(VecSum(shares), q)

-----------------------------------------------------------------------------
(* LweScheme                                                               *)

\* LweScheme::new: the secret key is `dimension` uniform elements of [0, q).
LweSecretKeys == Vectors(params.lwe_dimension, params.q)

q_div_2p == params.q \div (params.p * 2)

\* The values UniformBigInt::new_inclusive(0, q_div_2p) can return.
EncryptErrors == 0..q_div_2p

\* a and e are the values the sampler returns.
encrypt(sk, m, a, e) ==
    LET m_scaled == (params.q \div params.p) * m
        b == mod_floor((-Dot(a, sk)) + e + m_scaled, params.q)
    IN  [a |-> a, b |-> b]

decrypt(sk, a, b) ==
    LET m1 == mod_floor(Dot(a, sk) + b * 1, params.q)
        m2 == m1 + mod_floor(params.q \div (params.p * 2), params.q)
    IN  m2 \div Pow2(params.k - params.m)

-----------------------------------------------------------------------------
(* BaseDecomposition, round_div                                            *)

\* decompose with a loop that stops at the last digit instead of after it.
RECURSIVE decompose_mutant(_, _)
decompose_mutant(base, value) ==
    IF value >= base
    THEN <<TruncRem(value, base)>> \o decompose_mutant(base, TruncDiv(value, base))
    ELSE <<>>

\* The digits pushed by the loop, least significant first (a sequence).
RECURSIVE decompose(_, _)
decompose(base, value) ==
    IF value > 0
    THEN <<TruncRem(value, base)>> \o decompose(base, TruncDiv(value, base))
    ELSE <<>>

\* pad_digits starting at the second digit of the decomposition.
pad_digits_mutant(decomposition, d) ==
    [i \in 0..(d - 1) |-> IF i + 1 < Len(decomposition) THEN decomposition[i + 2] ELSE 0]

\* DVector::from_fn(d, ...): the first d digits, zero where there is none.
pad_digits(decomposition, d) ==
    [i \in 0..(d - 1) |-> IF i < Len(decomposition) THEN decomposition[i + 1] ELSE 0]

round_div(x, q) ==
    LET quotient == TruncDiv(x, q)
        remainder == TruncRem(x, q)
        double_remainder == remainder * 2
    IN  IF Abs(double_remainder) > q \/ (Abs(double_remainder) = q /\ remainder > 0)
        THEN IF remainder > 0 THEN quotient + 1 ELSE quotient - 1
        ELSE quotient

-----------------------------------------------------------------------------
(* Preprocessed gate tables                                                *)

SignFunction(value, secret) ==
    IF value - secret < 0 THEN -1
    ELSE IF value - secret = 0 THEN 0
    ELSE 1

LessThanZeroFunction(modulo, value, secret) ==
    LET diff == mod_floor(value - secret, modulo)
        half_modulo == modulo \div 2
    IN  IF diff >= half_modulo THEN 1 ELSE 0

\* ProcessingFunction::apply, dispatched on the implementing type.
apply(func, value, secret) ==
    IF func.kind = "Sign"
    THEN SignFunction(value, secret)
    ELSE LessThanZeroFunction(func.modulo, value, secret)

\* build with the row counter advanced before the function is applied.
PreprocessedGate_build_mutant(func, secret, num_parties, num_rows, field_exponent, rnd) ==
    [ij \in (0..(num_rows - 1)) \X (0..(num_parties - 1)) |->
        share(apply(func, ij[1] + 1, secret), num_parties, field_exponent, rnd[ij[1]])[ij[2]]]

\* truth_table[<<i, j>>]: row i is the sharing of func(i, secret); rnd[i] are
\* the draws of that sharing.
PreprocessedGate_build(func, secret, num_parties, num_rows, field_exponent, rnd) ==
    [ij \in (0..(num_rows - 1)) \X (0..(num_parties - 1)) |->
        share(apply(func, ij[1], secret), num_parties, field_exponent, rnd[ij[1]])[ij[2]]]

get_party_shares(truth_table, num_rows, party_index) ==
    [i \in 0..(num_rows - 1) |-> truth_table[<<i, party_index>>]]

get_table_index_shares(truth_table, num_parties, table_index) ==
    [j \in 0..(num_parties - 1) |-> truth_table[<<table_index, j>>]]

-----------------------------------------------------------------------------
(* Party: the per-party state.  Every Option field starts as None.         *)

Party_new(party_number) ==
    [ party_number |-> party_number,
      a |-> None, b |-> None, s |-> None, z |-> None, r |-> None,
      y |-> None, u |-> None, e |-> None,
      sk |-> None, ltz |-> None, signs |-> None,
      z_prime |-> None, y_prime |-> None, o_prime |-> None,
      z_prime_all_parties |-> None, y_prime_all_parties |-> None,
      o_prime_all_parties |-> None,
      mac_alpha |-> None, mac_r |-> None, mac_z |-> None,
      mac_chi_values |-> None ]

\* The generated getter: the value of a field that was set (the getter of a
\* field that is None panics; the steps guard it with IsSet).
get(field) == field[1]

IsSet(field) == field # None

get_sign(party, digit_index, digit_value) ==
    get(party.signs)[<<digit_value, digit_index>>]

RECURSIVE weighted_sum_to(_, _, _)
weighted_sum_to(party, z_prime_digits, len) ==
    IF len = 0 THEN 0
    ELSE get_sign(party, len - 1, z_prime_digits[len - 1]) * Pow2(len - 1)
         + weighted_sum_to(party, z_prime_digits, len - 1)

\* calc_weighted_sum with every digit weighted 1.
calc_weighted_sum_mutant(party, z_prime_digits) ==
    SumTo([i \in 0..(VecLen(z_prime_digits) - 1) |-> get_sign(party, i, z_prime_digits[i])],
          VecLen(z_prime_digits))

calc_weighted_sum(party, z_prime_digits) ==
    weighted_sum_to(party, z_prime_digits, VecLen(z_prime_digits))

-----------------------------------------------------------------------------
(* The dealer's randomness: where each sharing takes its draws in the      *)
(* stream of the run.                                                      *)

ShareDraws(seed, slot, e) == DrawVec(seed, slot * params.n, params.n - 1, e)

TableDraws(seed, slot, num_rows, e) ==
    [i \in 0..(num_rows - 1) |-> ShareDraws(seed, slot + i, e)]

\* The first slot of each sharing of the dealer, in the order of the draws.
Slot(what) ==
    CASE what = "s" -> 0
      [] what = "r" -> 1
      [] what = "sk" -> 2
      [] what = "ltz" -> 2 + params.lwe_dimension
      [] what = "sign" -> 2 + params.lwe_dimension + params.big_d
      [] what = "alpha" -> 2 + params.lwe_dimension + params.big_d + params.d * params.big_b
      [] what = "mac_r" -> 3 + params.lwe_dimension + params.big_d + params.d * params.big_b

-----------------------------------------------------------------------------
(* Protocol: the single-process orchestrator.                              *)

Protocol_new == [i \in PartyIds |-> Party_new(i)]

preprocess(parties, s, r, seed) ==
    LET s_shares == share(s, params.n, params.d + 1, ShareDraws(seed, Slot("s"), params.d + 1))
        ltz_function == [kind |-> "LessThanZero", modulo |-> params.big_d]
        ltz_gate == PreprocessedGate_build(ltz_function, s, params.n, params.big_d,
                        params.m, TableDraws(seed, Slot("ltz"), params.big_d, params.m))
        r_shares == share(r, params.n, params.k, ShareDraws(seed, Slot("r"), params.k))
        r_digits == pad_digits(decompose(params.big_b, r), params.d)
        sign_gates_shares ==
            [dd \in 0..(params.d - 1) |->
                PreprocessedGate_build([kind |-> "Sign"], r_digits[dd], params.n,
                    params.big_b, params.d + 1,
                    TableDraws(seed, Slot("sign") + dd * params.big_b, params.big_b, params.d + 1))]
        sign_gates_per_party ==
            [i \in PartyIds |->
                [vd \in (0..(params.big_b - 1)) \X (0..(params.d - 1)) |->
                    get_party_shares(sign_gates_shares[vd[2]], params.big_b, i)[vd[1]]]]
    IN  [i \in PartyIds |->
            [parties[i] EXCEPT
                !.s = Some(s_shares[i]),
                !.r = Some(r_shares[i]),
                !.ltz = Some(get_party_shares(ltz_gate, params.big_d, i)),
                !.signs = Some(sign_gates_per_party[i])]]

share_sk(parties, sk, seed) ==
    LET sk_shares_per_party ==
            [ij \in (0..(VecLen(sk) - 1)) \X PartyIds |->
                share(sk[ij[1]], params.n, params.k,
                      ShareDraws(seed, Slot("sk") + ij[1], params.k))[ij[2]]]
    IN  [i \in PartyIds |->
            [parties[i] EXCEPT
                !.sk = Some([j \in 0..(VecLen(sk) - 1) |-> sk_shares_per_party[<<j, i>>]])]]

weighted_signs_protocol(parties, z_prime) ==
    LET z_prime_digits == pad_digits(decompose(params.big_b, z_prime), params.d)
    IN  collect([i \in PartyIds |-> calc_weighted_sum(parties[i], z_prime_digits)])

\* ltz_protocol, first half: every party stores y and y' = (y + s) mod D.
ltz_set_y_prime(parties, y_shares) ==
    collect([i \in PartyIds |->
        [parties[i] EXCEPT
            !.y = Some(y_shares[i]),
            !.y_prime = Some(mod_floor(y_shares[i] + get(parties[i].s), params.big_d))]])

\* ltz_protocol, second half: y' is revealed and every party reads its table.
ltz_lookup(parties) ==
    LET y_prime == reveal([i \in PartyIds |-> get(parties[i].y_prime)], params.d + 1)
    IN  collect([i \in PartyIds |-> get(parties[i].ltz)[y_prime]])

\* Returns the parties with y and y' set, and the u shares.
ltz_protocol(parties, y_shares) ==
    LET with_y_prime == ltz_set_y_prime(parties, y_shares)
    IN  [parties |-> with_y_prime, u_shares |-> ltz_lookup(with_y_prime)]

set_u(parties, u_shares) ==
    collect([i \in PartyIds |-> [parties[i] EXCEPT !.u = Some(u_shares[i])]])

lt_r_l_with(res) == set_u(res.parties, res.u_shares)

lt_r_l_protocol(parties, z_prime) ==
    lt_r_l_with(ltz_protocol(parties, weighted_signs_protocol(parties, z_prime)))

\* set_z_prime without the mask: z' = z mod L.
set_z_prime_mutant(parties) ==
    collect([i \in PartyIds |->
        [parties[i] EXCEPT
            !.z_prime = Some(mod_floor(get(parties[i].z), params.big_l))]])

\* mod_l_protocol, first part: every party stores z' = (z + r) mod L.
set_z_prime(parties) ==
    collect([i \in PartyIds |->
        [parties[i] EXCEPT
            !.z_prime = Some(mod_floor(get(parties[i].z) + get(parties[i].r), params.big_l))]])

\* set_e with z' added by every party.
set_e_mutant(parties, z_prime) ==
    collect([i \in PartyIds |->
        LET neg_r == mod_floor(-get(parties[i].r), params.q)
            big_l_mul_u == get(parties[i].u) * params.big_l
            e == z_prime + neg_r + big_l_mul_u
        IN  [parties[i] EXCEPT !.e = Some(e)]])

\* mod_l_protocol, last part: e = z' - r + L * u, z' added by party 0 only.
set_e(parties, z_prime) ==
    collect([i \in PartyIds |->
        LET neg_r == mod_floor(-get(parties[i].r), params.q)
            big_l_mul_u == get(parties[i].u) * params.big_l
            e == (IF i = 0 THEN z_prime ELSE 0) + neg_r + big_l_mul_u
        IN  [parties[i] EXCEPT !.e = Some(e)]])

mod_l_with(with_z_prime, z_prime) == set_e(lt_r_l_protocol(with_z_prime, z_prime), z_prime)

mod_l_reveal(with_z_prime) ==
    mod_l_with(with_z_prime,
               reveal([i \in PartyIds |-> get(with_z_prime[i].z_prime)], params.l))

mod_l_protocol(parties) == mod_l_reveal(set_z_prime(parties))

\* noisy_decrypt: rnd are the draws of the sharing of z.  The parties after
\* the run and the revealed value.
noisy_decrypt(parties, z, rnd) ==
    LET z_shares == share(z, params.n, params.k, rnd)
        with_z == collect([i \in PartyIds |-> [parties[i] EXCEPT !.z = Some(z_shares[i])]])
        after == mod_l_protocol(with_z)
        o_shares ==
            [i \in PartyIds |->
                get(after[i].z) + mod_floor(-get(after[i].e), params.q)]
    IN  [ parties |-> after, out |-> reveal(o_shares, params.k) ]

\* decrypt, first part: z_i = [i = 0](b + 2^(l-1)) - ((-<a, sk_i>) mod q).
set_z(parties, a, b) ==
    collect([i \in PartyIds |->
        LET neg_a_dot_sk == mod_floor(-Dot(a, get(parties[i].sk)), params.q)
            add_term == Pow2(params.l - 1)
            z == (IF i = 0 THEN b + add_term ELSE 0) - neg_a_dot_sk
        IN  [parties[i] EXCEPT !.z = Some(z)]])

\* decrypt, last part: o' = (z - e) mod q, revealed and rounded.
set_o_prime(parties) ==
    collect([i \in PartyIds |->
        LET neg_e == mod_floor(-get(parties[i].e), params.q)
        IN  [parties[i] EXCEPT
                !.o_prime = Some(mod_floor(get(parties[i].z) + neg_e, params.q))]])

decrypt_reveal(with_o_prime) ==
    [ parties |-> with_o_prime,
      msg |-> round_div(reveal([i \in PartyIds |-> get(with_o_prime[i].o_prime)], params.k),
                        params.big_l) ]

\* Protocol::decrypt: the parties after the run and the returned plaintext.
Protocol_decrypt(parties, a, b) ==
    decrypt_reveal(set_o_prime(mod_l_protocol(set_z(parties, a, b))))

-----------------------------------------------------------------------------
(* AuthenticatedSharingScheme (centralised MAC)                            *)

\* batch_open with the MAC taken over the unmasked share.
batch_open_mutant(alpha, x_shares_collection, t, r_vals, r_rnd) ==
    LET r_shares == [i \in 0..(t - 1) |-> share(r_vals[i], params.n, params.mac_s, r_rnd[i])]
        x_tilde_shares_collection ==
            [ij \in PartyIds \X (0..(t - 1)) |->
                x_shares_collection[ij] + r_shares[ij[2]][ij[1]] * params.mac_big_k]
        m_tilde_collection ==
            [ij \in PartyIds \X (0..(t - 1)) |->
                mod_floor(alpha * x_shares_collection[ij], params.mac_big_ks)]
        x_tilde_shares ==
            [j \in 0..(t - 1) |->
                mod_floor(VecSum([i \in PartyIds |-> x_tilde_shares_collection[<<i, j>>]]),
                          params.mac_big_ks)]
    IN  [x_tilde_shares |-> x_tilde_shares, m_tilde_collection |-> m_tilde_collection]

\* r_vals[i] is the mask drawn for column i, r_rnd[i] the draws of its sharing.
batch_open(alpha, x_shares_collection, t, r_vals, r_rnd) ==
    LET r_shares == [i \in 0..(t - 1) |-> share(r_vals[i], params.n, params.mac_s, r_rnd[i])]
        x_tilde_shares_collection ==
            [ij \in PartyIds \X (0..(t - 1)) |->
                x_shares_collection[ij] + r_shares[ij[2]][ij[1]] * params.mac_big_k]
        m_tilde_collection ==
            [ij \in PartyIds \X (0..(t - 1)) |->
                mod_floor(alpha * x_tilde_shares_collection[ij], params.mac_big_ks)]
        x_tilde_shares ==
            [j \in 0..(t - 1) |->
                mod_floor(VecSum([i \in PartyIds |-> x_tilde_shares_collection[<<i, j>>]]),
                          params.mac_big_ks)]
    IN  [x_tilde_shares |-> x_tilde_shares, m_tilde_collection |-> m_tilde_collection]

\* chi_vals are the challenges drawn; the result is Some(values) or None.
batch_check(x_tilde_shares, global_key_shares, m_tilde_collection, chi_vals) ==
    LET t == VecLen(x_tilde_shares)
        y_tilde == mod_floor(Dot(chi_vals, x_tilde_shares), params.mac_big_ks)
        combined_mac_shares ==
            [i \in PartyIds |->
                mod_floor(Dot(chi_vals, [j \in 0..(t - 1) |-> m_tilde_collection[<<i, j>>]]),
                          params.mac_big_ks)]
        z_shares ==
            [i \in PartyIds |->
                mod_floor(combined_mac_shares[i] - global_key_shares[i] * y_tilde,
                          params.mac_big_ks)]
    IN  IF mod_floor(VecSum(z_shares), params.mac_big_ks) = 0
        THEN Some([i \in 0..(t - 1) |-> mod_floor(x_tilde_shares[i], params.mac_big_k)])
        ELSE None

-----------------------------------------------------------------------------
(* ProtocolTransferredData and the wire codec of a BigInt                  *)

ProtocolTransferredData_empty ==
    [ preprocessed |-> None, a |-> None, b |-> None,
      z_prime |-> None, y_prime |-> None, o_prime |-> None,
      mac_alpha |-> None, mac_r |-> None, mac_chi_vals |-> None, mac_z |-> None ]

\* A BigInt travels as its sign and its magnitude in 32-bit words, least
\* significant first.  Every magnitude of the model is below 2^31, so the
\* magnitude is no word (zero) or one word.
serialize(x) ==
    [ sign |-> IF x < 0 THEN "Minus" ELSE IF x = 0 THEN "NoSign" ELSE "Plus",
      data |-> IF x = 0 THEN <<>> ELSE <<Abs(x)>> ]

deserialize(bytes) ==
    LET magnitude == IF bytes.data = <<>> THEN 0 ELSE bytes.data[1]
    IN  IF bytes.sign = "Minus" THEN -magnitude ELSE magnitude

\* A plausible slip: the mask share is added without the factor 2^k.
single_open_mutant(x_shares, r, r_rnd) ==
    LET r_shares == share(r, params.n, params.mac_s, r_rnd)
    IN  [i \in PartyIds |->
            mod_floor(x_shares[i] + r_shares[i], params.mac_big_ks)]

\* r is the mask drawn, r_rnd the draws of its sharing.
single_open(x_shares, r, r_rnd) ==
    LET r_shares == share(r, params.n, params.mac_s, r_rnd)
    IN  [i \in PartyIds |->
            mod_floor(x_shares[i] + params.mac_big_k * r_shares[i], params.mac_big_ks)]

\* rnd are the draws of the sharing of the MAC of y; the result is Some(value)
\* or None.
single_check(alpha, y, alpha_shares, rnd) ==
    LET y_mac == mod_floor(y * alpha, params.mac_big_ks)
        y_mac_shares == share(y_mac, params.n, params.mac_ks, rnd)
        z_shares ==
            [i \in PartyIds |->
                mod_floor(y_mac_shares[i] - alpha_shares[i] * y, params.mac_big_ks)]
    IN  IF mod_floor(VecSum(z_shares), params.mac_big_ks) = 0
        THEN Some(mod_floor(y, params.mac_big_k))
        ELSE None

-----------------------------------------------------------------------------
(* Party::execute_step                                                     *)

\* The MAC batch of round 4 opens z', y' and o'.
MacT == 3

\* sorted_shares without the sort: the own share, then the received ones in
\* the order of arrival.
sorted_shares_mutant(own, received) ==
    LET listed == <<own>> \o received
    IN  [i \in 0..(Len(listed) - 1) |-> listed[i + 1]]

\* Vec::sort of the own share followed by the received ones, as a DVector.
sorted_shares(own, received) ==
    LET sorted == SortSeq(<<own>> \o received, <)
    IN  [i \in 0..(Len(sorted) - 1) |-> sorted[i + 1]]

\* execute_step_one with every party adding b and the offset.
execute_step_one_mutant(party, input) ==
    LET neg_a_dot_sk == mod_floor(-Dot(get(party.a), get(party.sk)), params.q)
        add_term == Pow2(params.l - 1)
        z == get(party.b) + add_term - neg_a_dot_sk
        z_prime == mod_floor(z + get(party.r), params.big_l)
    IN  [ party |-> [party EXCEPT !.z = Some(z), !.z_prime = Some(z_prime)],
          output |-> [ProtocolTransferredData_empty EXCEPT
                        !.z_prime = Some(serialize(z_prime))] ]

execute_step_one(party, input) ==
    LET neg_a_dot_sk == mod_floor(-Dot(get(party.a), get(party.sk)), params.q)
        add_term == Pow2(params.l - 1)
        z == (IF party.party_number = 0 THEN get(party.b) + add_term ELSE 0) - neg_a_dot_sk
        z_prime == mod_floor(z + get(party.r), params.big_l)
    IN  [ party |-> [party EXCEPT !.z = Some(z), !.z_prime = Some(z_prime)],
          output |-> [ProtocolTransferredData_empty EXCEPT
                        !.z_prime = Some(serialize(z_prime))] ]

execute_step_two(party, input) ==
    LET received == [i \in 1..Len(input) |-> deserialize(get(input[i].z_prime))]
        z_prime_all_parties == sorted_shares(get(party.z_prime), received)
        z_prime == reveal(z_prime_all_parties, params.l)
        z_prime_digits == pad_digits(decompose(params.big_b, z_prime), params.d)
        y == calc_weighted_sum(party, z_prime_digits)
        y_prime == mod_floor(y + get(party.s), params.big_d)
    IN  [ party |-> [party EXCEPT !.z_prime_all_parties = Some(z_prime_all_parties),
                                  !.y = Some(y), !.y_prime = Some(y_prime)],
          output |-> [ProtocolTransferredData_empty EXCEPT
                        !.y_prime = Some(serialize(y_prime))] ]

execute_step_three(party, input) ==
    LET received == [i \in 1..Len(input) |-> deserialize(get(input[i].y_prime))]
        y_prime_all_parties == sorted_shares(get(party.y_prime), received)
        y_prime == reveal(y_prime_all_parties, params.d + 1)
        u == get(party.ltz)[y_prime]
        neg_r == mod_floor(-get(party.r), params.q)
        big_l_mul_u == u * params.big_l
        e == (IF party.party_number = 0 THEN get(party.z_prime) ELSE 0) + neg_r + big_l_mul_u
        neg_e == mod_floor(-e, params.q)
        o_prime == mod_floor(get(party.z) + neg_e, params.q)
    IN  [ party |-> [party EXCEPT !.y_prime_all_parties = Some(y_prime_all_parties),
                                  !.u = Some(u), !.e = Some(e), !.o_prime = Some(o_prime)],
          output |-> [ProtocolTransferredData_empty EXCEPT
                        !.o_prime = Some(serialize(o_prime))] ]

\* The n x t matrix of execute_step_four: column j is the j-th revealed vector
\* (z', y', o' of all parties) and every entry has the party's own mask share
\* of column j, times 2^k, added.
step_four_x_tilde(party, o_prime_all_parties) ==
    LET x_shares_collection ==
            [ij \in PartyIds \X (0..(MacT - 1)) |->
                CASE ij[2] = 0 -> get(party.z_prime_all_parties)[ij[1]]
                  [] ij[2] = 1 -> get(party.y_prime_all_parties)[ij[1]]
                  [] ij[2] = 2 -> o_prime_all_parties[ij[1]]
                  [] OTHER -> 0]
    IN  [ij \in PartyIds \X (0..(MacT - 1)) |->
            x_shares_collection[ij] + get(party.mac_r)[ij[2]] * params.mac_big_k]

\* msg is the plaintext the step computes and logs.
execute_step_four(party, input) ==
    LET received == [i \in 1..Len(input) |-> deserialize(get(input[i].o_prime))]
        o_prime_all_parties == sorted_shares(get(party.o_prime), received)
        o_prime == reveal(o_prime_all_parties, params.k)
        msg == round_div(o_prime, params.big_l)
        t == MacT
        x_tilde_shares ==
            [j \in 0..(t - 1) |->
                mod_floor(VecSum([i \in PartyIds |-> step_four_x_tilde(party, o_prime_all_parties)[<<i, j>>]]),
                          params.mac_big_ks)]
        y_tilde == mod_floor(Dot(get(party.mac_chi_values), x_tilde_shares), params.mac_big_ks)
        party_x_tilde_macs ==
            [j \in 0..(t - 1) |->
                mod_floor(get(party.mac_alpha)
                            * step_four_x_tilde(party, o_prime_all_parties)[
                                  <<party.party_number, j>>],
                          params.mac_big_ks)]
        m_tilde == mod_floor(Dot(get(party.mac_chi_values), party_x_tilde_macs), params.mac_big_ks)
        z == mod_floor(m_tilde - get(party.mac_alpha) * y_tilde, params.mac_big_ks)
    IN  [ party |-> [party EXCEPT !.o_prime_all_parties = Some(o_prime_all_parties),
                                  !.mac_z = Some(z)],
          output |-> [ProtocolTransferredData_empty EXCEPT !.mac_z = Some(serialize(z))],
          msg |-> msg ]

RECURSIVE sum_mac_z(_)
sum_mac_z(input) ==
    IF input = <<>> THEN 0
    ELSE deserialize(get(Head(input).mac_z)) + sum_mac_z(Tail(input))

\* z_sum is the local sum of the step; no field is written.
execute_step_five(party, input) ==
    LET z_sum == sum_mac_z(input) + get(party.mac_z)
    IN  [ party |-> party, output |-> ProtocolTransferredData_empty, z_sum |-> z_sum ]

-----------------------------------------------------------------------------
(* State                                                                   *)

VARIABLES
    sharing,    \* one call of share and of reveal: inputs, shares, revealed value
    lwe,        \* the LweScheme, the ciphertext it produced and its decryption
    protocol,   \* the single-process Protocol: its parties and its output
    mac,        \* the AuthenticatedSharingScheme of the post-pass
    dist,       \* the distributed run: dealer, one worker per participant, messages
    net,        \* the participants' event loops, worker pools and job buffers
    participant, \* one participant: its jobs, its known peers, what it has sent
    utils       \* one function on its own: its arguments and its result

vars == <<sharing, lwe, protocol, mac, dist, net, participant, utils>>

Idle == [pc |-> "idle"]

-----------------------------------------------------------------------------
(* SpecShare: AdditiveSecretSharing::share and reveal on every input.      *)

InitShare ==
    /\ sharing \in [ pc : {"start"},
                     secret : (-MaxSecret)..MaxSecret,
                     num_shares : 2..NumParties,
                     ring_exponent : 1..MaxExponent,
                     shares : {None}, revealed : {None} ]
    /\ lwe = Idle /\ protocol = Idle /\ mac = Idle
    /\ dist = Idle
    /\ net = Idle
    /\ participant = Idle
    /\ utils = Idle

Share ==
    /\ sharing.pc = "start"
    /\ \E rnd \in Vectors(sharing.num_shares - 1, Pow2(sharing.ring_exponent)) :
          sharing' = [sharing EXCEPT
                        !.pc = "shared",
                        !.shares = Some(share(sharing.secret, sharing.num_shares,
                                              sharing.ring_exponent, rnd))]
    /\ UNCHANGED <<lwe, protocol, mac, dist, net, participant, utils>>

Reveal ==
    /\ sharing.pc = "shared"
    /\ sharing' = [sharing EXCEPT
                     !.pc = "revealed",
                     !.revealed = Some(reveal(get(sharing.shares), sharing.ring_exponent))]
    /\ UNCHANGED <<lwe, protocol, mac, dist, net, participant, utils>>

NextShare == Share \/ Reveal

SpecShare == InitShare /\ [][NextShare]_vars

-----------------------------------------------------------------------------
(* SpecLwe: LweScheme::new, encrypt, decrypt.                              *)

InitLwe ==
    /\ lwe \in [ pc : {"new"}, sk : LweSecretKeys,
                 ptxt : {None}, error : {None}, a : {None}, b : {None}, out : {None} ]
    /\ sharing = Idle /\ protocol = Idle /\ mac = Idle
    /\ dist = Idle
    /\ net = Idle
    /\ participant = Idle
    /\ utils = Idle

LweEncrypt ==
    /\ lwe.pc = "new"
    /\ \E m \in 0..(params.p - 1), a \in Vectors(params.lwe_dimension, params.q),
          e \in EncryptErrors :
          LET ct == encrypt(lwe.sk, m, a, e)
          IN  lwe' = [lwe EXCEPT !.pc = "encrypted", !.ptxt = Some(m), !.error = Some(e),
                                 !.a = Some(ct.a), !.b = Some(ct.b)]
    /\ UNCHANGED <<sharing, protocol, mac, dist, net, participant, utils>>

LweDecrypt ==
    /\ lwe.pc = "encrypted"
    /\ lwe' = [lwe EXCEPT !.pc = "decrypted",
                          !.out = Some(decrypt(lwe.sk, get(lwe.a), get(lwe.b)))]
    /\ UNCHANGED <<sharing, protocol, mac, dist, net, participant, utils>>

NextLwe == LweEncrypt \/ LweDecrypt

SpecLwe == InitLwe /\ [][NextLwe]_vars

-----------------------------------------------------------------------------
(* SpecProtocol: the single-process run of the tests of protocol.rs:       *)
(* LweScheme::new and encrypt, Protocol::new, preprocess, share_sk,        *)
(* decrypt, then the MAC post-pass batch_open / batch_check over the       *)
(* (z', y', o') share matrix.                                              *)

InitProtocol ==
    /\ \E seed \in 0..MaxSeed, sk \in LweSecretKeys :
          /\ lwe = [ pc |-> "new", sk |-> sk,
                     ptxt |-> None, error |-> None, a |-> None, b |-> None, out |-> None ]
          /\ protocol = [ pc |-> "new", seed |-> seed, parties |-> Protocol_new,
                          s |-> None, r |-> None, out |-> None ]
    /\ mac = [ pc |-> "none" ]
    /\ sharing = Idle
    /\ dist = Idle
    /\ net = Idle
    /\ participant = Idle
    /\ utils = Idle

Preprocess ==
    /\ lwe.pc = "encrypted"
    /\ protocol.pc = "new"
    /\ \E s \in 0..(params.big_d - 1), r \in 0..(params.big_l - 1) :
          protocol' = [protocol EXCEPT
                         !.pc = "preprocessed", !.s = Some(s), !.r = Some(r),
                         !.parties = preprocess(protocol.parties, s, r, protocol.seed)]
    /\ UNCHANGED <<sharing, lwe, mac, dist, net, participant, utils>>

ShareSk ==
    /\ protocol.pc = "preprocessed"
    /\ protocol' = [protocol EXCEPT
                      !.pc = "shared",
                      !.parties = share_sk(protocol.parties, lwe.sk, protocol.seed)]
    /\ UNCHANGED <<sharing, lwe, mac, dist, net, participant, utils>>

Decrypt ==
    /\ protocol.pc = "shared"
    /\ LET res == Protocol_decrypt(protocol.parties, get(lwe.a), get(lwe.b))
       IN  protocol' = [protocol EXCEPT
                          !.pc = "decrypted", !.parties = res.parties, !.out = Some(res.msg)]
    /\ UNCHANGED <<sharing, lwe, mac, dist, net, participant, utils>>

\* The least significant bit flipped.
xor_one(x) == IF x % 2 = 0 THEN x + 1 ELSE x - 1

\* One party changes its o' share after the run and before the matrix is opened.
TamperOPrime ==
    /\ protocol.pc = "decrypted"
    /\ mac.pc = "none"
    /\ \E i \in PartyIds :
          protocol' = [protocol EXCEPT
                         !.pc = "tampered",
                         !.parties[i].o_prime = Some(xor_one(get(protocol.parties[i].o_prime)))]
    /\ UNCHANGED <<sharing, lwe, mac, dist, net, participant, utils>>

\* The n x 3 matrix handed to batch_open.
x_shares_of(parties) ==
    [ij \in PartyIds \X (0..(MacT - 1)) |->
        CASE ij[2] = 0 -> get(parties[ij[1]].z_prime)
          [] ij[2] = 1 -> get(parties[ij[1]].y_prime)
          [] ij[2] = 2 -> get(parties[ij[1]].o_prime)
          [] OTHER -> 0]

\* The global key of the test (uniform in [0, L)) and its sharing in ring k + s.
MacKeyOf(seed) == Draw(seed, Slot("alpha") * params.n + params.n - 1, params.l)

MacKeySharesOf(seed) ==
    share(MacKeyOf(seed), params.n, params.mac_ks, ShareDraws(seed, Slot("alpha"), params.mac_ks))

BatchOpen ==
    /\ protocol.pc \in {"decrypted", "tampered"}
    /\ mac.pc = "none"
    /\ LET seed == protocol.seed
           alpha == MacKeyOf(seed)
           x_shares_collection == x_shares_of(protocol.parties)
           r_vals == [j \in 0..(MacT - 1) |->
                        Draw(seed, (Slot("mac_r") + j) * params.n + params.n - 1, params.mac_s)]
           r_rnd == [j \in 0..(MacT - 1) |-> ShareDraws(seed, Slot("mac_r") + j, params.mac_s)]
           opened == batch_open(alpha, x_shares_collection, MacT, r_vals, r_rnd)
       IN  mac' = [ pc |-> "opened", alpha |-> alpha, alpha_shares |-> MacKeySharesOf(seed),
                    x_shares_collection |-> x_shares_collection,
                    x_tilde_shares |-> opened.x_tilde_shares,
                    m_tilde_collection |-> opened.m_tilde_collection,
                    chi_vals |-> None, checked_values |-> None ]
    /\ UNCHANGED <<sharing, lwe, protocol, dist, net, participant, utils>>

BatchCheck ==
    /\ mac.pc = "opened"
    /\ protocol.pc \in {"decrypted", "tampered"}
    /\ LET chi_vals == DrawVec(protocol.seed, (Slot("mac_r") + MacT) * params.n, MacT,
                               params.mac_s)
       IN  mac' = [mac EXCEPT
                     !.pc = "checked", !.chi_vals = Some(chi_vals),
                     !.checked_values = batch_check(mac.x_tilde_shares, mac.alpha_shares,
                                                    mac.m_tilde_collection, chi_vals)]
    /\ UNCHANGED <<sharing, lwe, protocol, dist, net, participant, utils>>

NextProtocol ==
    \/ LweEncrypt
    \/ Preprocess
    \/ ShareSk
    \/ Decrypt
    \/ TamperOPrime
    \/ BatchOpen
    \/ BatchCheck

SpecProtocol == InitProtocol /\ [][NextProtocol]_vars

-----------------------------------------------------------------------------
(* SpecMac: AuthenticatedSharingScheme on its own, as tests::test_batch_check *)
(* drives it: a key and its sharing, MacBatch values and their sharings,   *)
(* batch_open, batch_check.                                                *)

InitMac ==
    /\ \E seed \in 0..MaxSeed, alpha \in 0..(params.mac_big_ks - 1) :
          mac = [ pc |-> "new", seed |-> seed, alpha |-> alpha,
                  alpha_shares |-> share(alpha, params.n, params.mac_ks,
                                         ShareDraws(seed, 0, params.mac_ks)),
                  x_shares_collection |-> None, x_tilde_shares |-> None,
                  m_tilde_collection |-> None, r_vals |-> None, chi_vals |-> None,
                  checked_values |-> None ]
    /\ sharing = Idle
    /\ lwe = Idle
    /\ protocol = Idle
    /\ dist = Idle
    /\ net = Idle
    /\ participant = Idle
    /\ utils = Idle

\* The columns of the matrix are sharings, in ring k + s, of k-bit values.
MacShareValues ==
    /\ mac.pc = "new"
    /\ \E x_values \in Vectors(MacBatch, params.mac_big_k) :
          LET x_shares ==
                  [j \in 0..(MacBatch - 1) |->
                      share(x_values[j], params.n, params.mac_ks,
                            ShareDraws(mac.seed, 1 + j, params.mac_ks))]
          IN  mac' = [mac EXCEPT
                        !.pc = "shared",
                        !.x_shares_collection =
                            Some([ij \in PartyIds \X (0..(MacBatch - 1)) |->
                                     x_shares[ij[2]][ij[1]]])]
    /\ UNCHANGED <<sharing, lwe, protocol, dist, net, participant, utils>>

MacBatchOpen ==
    /\ mac.pc = "shared"
    /\ \E r_vals \in Vectors(MacBatch, params.mac_big_s) :
          LET r_rnd == [j \in 0..(MacBatch - 1) |->
                           ShareDraws(mac.seed, 1 + MacBatch + j, params.mac_s)]
              opened == batch_open(mac.alpha, get(mac.x_shares_collection), MacBatch,
                                   r_vals, r_rnd)
          IN  mac' = [mac EXCEPT
                        !.pc = "opened", !.r_vals = Some(r_vals),
                        !.x_shares_collection = get(mac.x_shares_collection),
                        !.x_tilde_shares = opened.x_tilde_shares,
                        !.m_tilde_collection = opened.m_tilde_collection]
    /\ UNCHANGED <<sharing, lwe, protocol, dist, net, participant, utils>>

MacBatchCheck ==
    /\ mac.pc = "opened"
    /\ \E chi_vals \in Vectors(MacBatch, params.mac_big_s) :
          mac' = [mac EXCEPT
                    !.pc = "checked", !.chi_vals = Some(chi_vals),
                    !.checked_values = batch_check(mac.x_tilde_shares, mac.alpha_shares,
                                                   mac.m_tilde_collection, chi_vals)]
    /\ UNCHANGED <<sharing, lwe, protocol, dist, net, participant, utils>>

NextMac == MacShareValues \/ MacBatchOpen \/ MacBatchCheck

SpecMac == InitMac /\ [][NextMac]_vars

-----------------------------------------------------------------------------
(* SpecDist: the distributed run at the level of values.  The discovery    *)
(* server deals when the last participant registers; every participant     *)
(* starts its worker from its bundle; a worker executes step r when the     *)
(* round-r messages of its N - 1 peers are in its buffer.  Messages are     *)
(* delivered unmodified; the steps of one worker run in order.             *)

\* Preprocessing::run: one PreprocessedShare per party.
Preprocessing_run(s, r, sk, seed) ==
    LET s_shares == share(s, params.n, params.d + 1, ShareDraws(seed, Slot("s"), params.d + 1))
        ltz_gate == PreprocessedGate_build([kind |-> "LessThanZero", modulo |-> params.big_d],
                        s, params.n, params.big_d, params.m,
                        TableDraws(seed, Slot("ltz"), params.big_d, params.m))
        r_shares == share(r, params.n, params.k, ShareDraws(seed, Slot("r"), params.k))
        r_digits == pad_digits(decompose(params.big_b, r), params.d)
    IN  collect([i \in PartyIds |->
            [ s |-> s_shares[i],
              r |-> r_shares[i],
              sk |-> collect([j \in 0..(VecLen(sk) - 1) |->
                        share(sk[j], params.n, params.k,
                              ShareDraws(seed, Slot("sk") + j, params.k))[i]]),
              ltz |-> get_party_shares(ltz_gate, params.big_d, i),
              signs |-> collect([vd \in (0..(params.big_b - 1)) \X (0..(params.d - 1)) |->
                          get_party_shares(
                              PreprocessedGate_build([kind |-> "Sign"], r_digits[vd[2]],
                                  params.n, params.big_b, params.d + 1,
                                  TableDraws(seed, Slot("sign") + vd[2] * params.big_b,
                                             params.big_b, params.d + 1)),
                              params.big_b, i)[vd[1]]]) ]])

\* DiscoveryServer::register, the MAC material: the key in ring k + s and its
\* shares, MacT masks of s bits and their shares, MacT challenges of s bits.
deal_mac(seed) ==
    LET alpha == Draw(seed, Slot("alpha") * params.n + params.n - 1, params.mac_ks)
    IN  [ mac_alpha_shares |->
              share(alpha, params.n, params.mac_ks, ShareDraws(seed, Slot("alpha"), params.mac_ks)),
          mac_r_shares_collection |->
              collect([ij \in PartyIds \X (0..(MacT - 1)) |->
                  share(Draw(seed, (Slot("mac_r") + ij[2]) * params.n + params.n - 1, params.mac_s),
                        params.n, params.mac_s,
                        ShareDraws(seed, Slot("mac_r") + ij[2], params.mac_s))[ij[1]]]),
          chi_vals |-> DrawVec(seed, (Slot("mac_r") + MacT) * params.n, MacT, params.mac_s) ]

\* The file written for participant i.
participant_data(i, preprocessing_shares, a, b, mac_material) ==
    [ProtocolTransferredData_empty EXCEPT
        !.preprocessed = Some(preprocessing_shares[i]),
        !.a = Some(a),
        !.b = Some(b),
        !.mac_alpha = Some(mac_material.mac_alpha_shares[i]),
        !.mac_r = Some(collect([j \in 0..(MacT - 1) |->
                          mac_material.mac_r_shares_collection[<<i, j>>]])),
        !.mac_chi_vals = Some(mac_material.chi_vals)]

\* handle_protocol_start: the Party of the worker, set up from the file.
handle_protocol_start(my_id, input_data) ==
    LET preprocessed == get(input_data.preprocessed)
    IN  [Party_new(my_id) EXCEPT
            !.r = Some(preprocessed.r),
            !.s = Some(preprocessed.s),
            !.sk = Some(preprocessed.sk),
            !.ltz = Some(preprocessed.ltz),
            !.signs = Some(preprocessed.signs),
            !.a = input_data.a,
            !.b = input_data.b,
            !.mac_alpha = input_data.mac_alpha,
            !.mac_r = input_data.mac_r,
            !.mac_chi_values = input_data.mac_chi_vals]

\* execute_step with the message of step 1 repeating the z' share of step 0.
execute_step_mutant(party, step_number, input) ==
    CASE step_number = 0 -> execute_step_one(party, input)
      [] step_number = 1 ->
            [execute_step_two(party, input) EXCEPT
                !.output.z_prime = Some(serialize(get(party.z_prime)))]
      [] step_number = 2 -> execute_step_three(party, input)
      [] step_number = 3 -> execute_step_four(party, input)
      [] step_number = 4 -> execute_step_five(party, input)

\* Party::execute_step: the step of the given number.
execute_step(party, step_number, input) ==
    CASE step_number = 0 -> execute_step_one(party, input)
      [] step_number = 1 -> execute_step_two(party, input)
      [] step_number = 2 -> execute_step_three(party, input)
      [] step_number = 3 -> execute_step_four(party, input)
      [] step_number = 4 -> execute_step_five(party, input)

STEP_COUNT == 5

\* The k-th of the N - 1 peers of participant i, k in 1..N-1.
peer(i, k) == IF k - 1 < i THEN k - 1 ELSE k

\* The round-r messages in the buffer of participant i, one per peer.
step_input(sent, i, r) ==
    collect([k \in 1..(params.n - 1) |-> sent[peer(i, k)][r + 1]])

InitDist ==
    /\ \E seed \in 0..MaxSeed :
          dist = [ pc |-> "registering", seed |-> seed,
                   sk |-> None, ptxt |-> None, a |-> None, b |-> None,
                   files |-> None,
                   workers |-> [i \in PartyIds |-> None],
                   next_step |-> [i \in PartyIds |-> 0],
                   sent |-> [i \in PartyIds |-> <<>>],
                   result |-> [i \in PartyIds |-> "None"],
                   msg |-> [i \in PartyIds |-> None],
                   z_sum |-> [i \in PartyIds |-> None] ]
    /\ sharing = Idle
    /\ lwe = Idle
    /\ protocol = Idle
    /\ mac = Idle
    /\ net = Idle
    /\ participant = Idle
    /\ utils = Idle

\* DiscoveryServer::register for the participant that completes the set:
\* init_lwe_with_random_ptxt (which asserts that the ciphertext decrypts to the
\* plaintext), the dealer secrets, Preprocessing::run, the MAC material, one
\* file per participant and ProtocolStart to each.
Register ==
    /\ dist.pc = "registering"
    /\ \E sk \in LweSecretKeys, ptxt \in 0..(params.p - 1), e \in EncryptErrors,
          s \in 0..(params.big_d - 1), r \in 0..(params.big_l - 1) :
          LET a == DrawVec(dist.seed, (Slot("mac_r") + MacT + 1) * params.n,
                           params.lwe_dimension, params.k)
              ctxt == encrypt(sk, ptxt, a, e)
              preprocessing_shares == Preprocessing_run(s, r, sk, dist.seed)
              mac_material == deal_mac(dist.seed)
          IN  IF decrypt(sk, ctxt.a, ctxt.b) # ptxt
              THEN dist' = [dist EXCEPT !.pc = "panicked"]
              ELSE dist' = [dist EXCEPT
                              !.pc = "dealt",
                              !.sk = Some(sk), !.ptxt = Some(ptxt),
                              !.a = Some(ctxt.a), !.b = Some(ctxt.b),
                              !.files = Some(collect([i \in PartyIds |->
                                            participant_data(i, preprocessing_shares,
                                                             ctxt.a, ctxt.b, mac_material)]))]
    /\ UNCHANGED <<sharing, lwe, protocol, mac, net, participant, utils>>

\* Participant i handles ProtocolStart: the worker of the job is built from the
\* file and the round-0 message (empty) goes to every peer.
ProtocolStart(i) ==
    /\ dist.pc = "dealt"
    /\ dist.workers[i] = None
    /\ dist' = [dist EXCEPT
                  !.workers[i] = Some(handle_protocol_start(i, get(dist.files)[i])),
                  !.sent[i] = <<ProtocolTransferredData_empty>>]
    /\ UNCHANGED <<sharing, lwe, protocol, mac, net, participant, utils>>

\* Participant i handles the round-r message that completes the set of N - 1:
\* handle_protocol_execute_step runs step r and either reports Finished or
\* sends the output, tagged r + 1, to every peer.
HandleStep(i) ==
    /\ dist.pc = "dealt"
    /\ dist.workers[i] # None
    /\ dist.next_step[i] < STEP_COUNT
    /\ \A j \in PartyIds \ {i} : Len(dist.sent[j]) > dist.next_step[i]
    /\ LET step_num == dist.next_step[i]
           res == execute_step(get(dist.workers[i]), step_num,
                               step_input(dist.sent, i, step_num))
           next_step_num == IF step_num = STEP_COUNT THEN 0 ELSE step_num + 1
       IN  dist' = [dist EXCEPT
                      !.workers[i] = Some(res.party),
                      !.next_step[i] = next_step_num,
                      !.sent[i] = IF next_step_num = STEP_COUNT THEN @ ELSE Append(@, res.output),
                      !.result[i] = IF next_step_num = STEP_COUNT THEN "Finished" ELSE "NextStep",
                      !.msg[i] = IF step_num = 3 THEN Some(res.msg) ELSE @,
                      !.z_sum[i] = IF step_num = 4 THEN Some(res.z_sum) ELSE @]
    /\ UNCHANGED <<sharing, lwe, protocol, mac, net, participant, utils>>

NextDist ==
    \/ Register
    \/ \E i \in PartyIds : ProtocolStart(i)
    \/ \E i \in PartyIds : HandleStep(i)

SpecDist == InitDist /\ [][NextDist]_vars

-----------------------------------------------------------------------------
(* SpecNet: the participants as processes.  Each has an event loop that    *)
(* turns every incoming message into a task of its thread pool, a pool of  *)
(* ThreadCount threads, and the worker of its job.  A worker is its buffer  *)
(* of payloads under (step, sender) keys and the steps its Party has       *)
(* executed.  A handler holds the lock of the job's map entry from its      *)
(* first access to its return, so it is one step.                          *)

\* The wait of handle_protocol_execute_step: fewer than N - 1 round messages.
not_ready_mutant(count) == count < params.n - 2

not_ready(count) == count < params.n - 1

Worker_new == [ steps_bulk_data |-> <<>>, executed |-> <<>> ]

\* The payloads a ProtocolExecuteStep message can carry: the bytes of a BigInt,
\* or bytes that are not the encoding of one.
Payloads == {"bytes_a", "bytes_b", "garbage"}

decodes(input_data) == input_data # "garbage"

\* The key a message is buffered under, with the sender left out.
bulk_key_mutant(step_num, received_from_participant) == <<step_num, 0>>

bulk_key(step_num, received_from_participant) == <<step_num, received_from_participant>>

\* HashMap::insert: the value of an existing key is replaced.
insert(map, key, value) ==
    [k \in DOMAIN map \cup {key} |-> IF k = key THEN value ELSE map[k]] @@ <<>>

\* The number of buffered messages of the round.
step_bulk_count(steps_bulk_data, step_num) ==
    Cardinality({key \in DOMAIN steps_bulk_data : key[1] = step_num})

\* execute_step reads, through getters that panic on a missing value, what the
\* step before has written.
can_execute(worker, step_num) ==
    step_num = 0 \/ \E k \in 1..Len(worker.executed) : worker.executed[k] = step_num - 1

\* Steps 1..4 deserialize the field of their round from every message of the
\* round and unwrap the result; step 0 does not read its input.
inputs_decode(steps_bulk_data, step_num) ==
    step_num = 0 \/ \A key \in DOMAIN steps_bulk_data :
                        key[1] = step_num => decodes(steps_bulk_data[key])

\* handle_protocol_execute_step reporting Finished one step late.
handle_protocol_execute_step_mutant(worker, received_from_participant, step_num, input_data) ==
    LET inserted == insert(worker.steps_bulk_data,
                           bulk_key(step_num, received_from_participant), input_data)
        next_step_num == IF step_num = STEP_COUNT THEN 0 ELSE step_num + 1
    IN  IF not_ready(step_bulk_count(inserted, step_num))
        THEN [ worker |-> [worker EXCEPT !.steps_bulk_data = inserted],
               result |-> "NoReady" ]
        ELSE [ worker |-> [worker EXCEPT !.steps_bulk_data = inserted,
                                         !.executed = Append(@, step_num)],
               result |-> IF ~can_execute(worker, step_num)
                             \/ ~inputs_decode(inserted, step_num) THEN "Panic"
                          ELSE IF next_step_num = STEP_COUNT + 1 THEN "Finished"
                          ELSE "NextStep" ]

\* handle_protocol_execute_step on the worker of the job: the worker after the
\* call and the ExecutionResult.  executed lists the steps execute_step was
\* entered for; a step entered without the values of the step before, or with
\* a payload that does not decode, panics.
handle_protocol_execute_step(worker, received_from_participant, step_num, input_data) ==
    LET inserted == insert(worker.steps_bulk_data,
                           bulk_key(step_num, received_from_participant), input_data)
        next_step_num == IF step_num = STEP_COUNT THEN 0 ELSE step_num + 1
    IN  IF not_ready(step_bulk_count(inserted, step_num))
        THEN [ worker |-> [worker EXCEPT !.steps_bulk_data = inserted],
               result |-> "NoReady" ]
        ELSE [ worker |-> [worker EXCEPT !.steps_bulk_data = inserted,
                                         !.executed = Append(@, step_num)],
               result |-> IF ~can_execute(worker, step_num)
                             \/ ~inputs_decode(inserted, step_num) THEN "Panic"
                          ELSE IF next_step_num = STEP_COUNT THEN "Finished"
                          ELSE "NextStep" ]

\* send_result_to_everyone: one ProtocolExecuteStep on the connection to each peer.
send_result_to_everyone(chan, step, participant_id) ==
    [c \in DOMAIN chan |->
        IF c[1] = participant_id
        THEN Append(chan[c], [ type |-> "ProtocolExecuteStep",
                               participant_num |-> participant_id, step_num |-> step,
                               input_data |-> "bytes_a" ])
        ELSE chan[c]]

Connections == {c \in PartyIds \X PartyIds : c[1] # c[2]}

\* All participants are registered and connected to each other; the discovery
\* server has sent ProtocolStart to each.
InitNet ==
    /\ net = [ chan |-> [c \in Connections |-> <<>>],
               start_pending |-> [p \in PartyIds |-> TRUE],
               queue |-> [p \in PartyIds |-> <<>>],
               running |-> [p \in PartyIds |-> {}],
               job_data |-> [p \in PartyIds |-> None],
               result |-> [p \in PartyIds |-> "None"],
               crashed |-> [p \in PartyIds |-> FALSE] ]
    /\ sharing = Idle
    /\ lwe = Idle
    /\ protocol = Idle
    /\ mac = Idle
    /\ dist = Idle
    /\ participant = Idle
    /\ utils = Idle

\* NetEvent::Message(ProtocolStart): the event loop spawns the start task.
ReceiveProtocolStart(p) ==
    /\ net.start_pending[p]
    /\ ~net.crashed[p]
    /\ net' = [net EXCEPT
                 !.start_pending[p] = FALSE,
                 !.queue[p] = Append(@, [type |-> "ProtocolStart"])]
    /\ UNCHANGED <<sharing, lwe, protocol, mac, dist, participant, utils>>

\* NetEvent::Message(ProtocolExecuteStep): the event loop spawns a handler task.
ReceiveProtocolExecuteStep(src, p) ==
    /\ <<src, p>> \in Connections
    /\ net.chan[<<src, p>>] # <<>>
    /\ ~net.crashed[p]
    /\ net' = [net EXCEPT
                 !.chan[<<src, p>>] = Tail(@),
                 !.queue[p] = Append(@, Head(net.chan[<<src, p>>]))]
    /\ UNCHANGED <<sharing, lwe, protocol, mac, dist, participant, utils>>

\* A free thread of the pool takes the oldest task.
TakeTask(p) ==
    /\ net.queue[p] # <<>>
    /\ Cardinality(net.running[p]) < ThreadCount
    /\ ~net.crashed[p]
    /\ net' = [net EXCEPT
                 !.queue[p] = Tail(@),
                 !.running[p] = @ \cup {Head(net.queue[p])}]
    /\ UNCHANGED <<sharing, lwe, protocol, mac, dist, participant, utils>>

\* The start task: the worker is inserted in job_data and the round-0 message
\* goes to every peer.
RunProtocolStart(p) ==
    /\ [type |-> "ProtocolStart"] \in net.running[p]
    /\ ~net.crashed[p]
    /\ net' = [net EXCEPT
                 !.running[p] = @ \ {[type |-> "ProtocolStart"]},
                 !.job_data[p] = Some(Worker_new),
                 !.chan = send_result_to_everyone(@, 0, p)]
    /\ UNCHANGED <<sharing, lwe, protocol, mac, dist, participant, utils>>

\* A handler task whose job exists (it sleeps and retries while it does not).
RunProtocolExecuteStep(p) ==
    /\ ~net.crashed[p]
    /\ net.job_data[p] # None
    /\ \E task \in net.running[p] :
          /\ task.type = "ProtocolExecuteStep"
          /\ LET res == handle_protocol_execute_step(get(net.job_data[p]),
                                                     task.participant_num, task.step_num,
                                                     task.input_data)
             IN  net' = [net EXCEPT
                           !.running[p] = @ \ {task},
                           !.job_data[p] = Some(res.worker),
                           !.result[p] = res.result,
                           !.crashed[p] = (res.result = "Panic"),
                           !.chan = IF res.result = "NextStep"
                                    THEN send_result_to_everyone(@, task.step_num + 1, p)
                                    ELSE @]
    /\ UNCHANGED <<sharing, lwe, protocol, mac, dist, participant, utils>>

NextNet ==
    \/ \E p \in PartyIds : ReceiveProtocolStart(p)
    \/ \E src, p \in PartyIds : ReceiveProtocolExecuteStep(src, p)
    \/ \E p \in PartyIds : TakeTask(p)
    \/ \E p \in PartyIds : RunProtocolStart(p)
    \/ \E p \in PartyIds : RunProtocolExecuteStep(p)

SpecNet == InitNet /\ [][NextNet]_vars

\* Fair scheduling: the event loop handles every event that stays pending, a
\* free pool thread takes a queued task, and a thread that can run its task
\* runs it.
FairNet ==
    /\ \A p \in PartyIds :
          /\ WF_vars(ReceiveProtocolStart(p))
          /\ WF_vars(TakeTask(p))
          /\ WF_vars(RunProtocolStart(p))
          /\ WF_vars(RunProtocolExecuteStep(p))
    /\ \A c \in Connections : WF_vars(ReceiveProtocolExecuteStep(c[1], c[2]))

SpecNetFair == InitNet /\ [][NextNet]_vars /\ FairNet

-----------------------------------------------------------------------------
(* SpecParticipant: one participant, number 0, with JobsPerWorker jobs,    *)
(* and everything its event loop can be handed: bytes that are no Message, *)
(* ProtocolExecuteStep from either peer for any job and round with any     *)
(* payload, and the removal of a peer.  Every handler runs to its end      *)
(* before the next event; the interleaving of handlers is SpecNet's.       *)

Jobs == 0..(JobsPerWorker - 1)

Peers == PartyIds \ {0}

InitParticipant ==
    /\ participant = [ job_data |-> [j \in Jobs |-> None],
                       known_participants |-> Peers,
                       sent |-> 0,
                       crashed |-> FALSE,
                       handled |-> 0,
                       last |-> [type |-> "None"] ]
    /\ sharing = Idle
    /\ lwe = Idle
    /\ protocol = Idle
    /\ mac = Idle
    /\ dist = Idle
    /\ net = Idle
    /\ utils = Idle

\* NetEvent::Message whose bytes do not deserialize to a Message: logged, dropped.
HandleUndecodable ==
    /\ ~participant.crashed
    /\ participant.handled < MaxEvents
    /\ participant' = [participant EXCEPT
                         !.handled = @ + 1,
                         !.last = [type |-> "Undecodable"]]
    /\ UNCHANGED <<sharing, lwe, protocol, mac, dist, net, utils>>

\* The task of Message::ProtocolStart for one batch: the worker is inserted and
\* the round-0 message goes to every known participant.
StartJob(batch) ==
    /\ ~participant.crashed
    /\ participant.job_data[batch] = None
    /\ participant' = [participant EXCEPT
                         !.job_data[batch] = Some(Worker_new),
                         !.sent = @ + Cardinality(participant.known_participants),
                         !.last = [type |-> "ProtocolStart", job_id |-> batch]]
    /\ UNCHANGED <<sharing, lwe, protocol, mac, dist, net, utils>>

\* The task of Message::ProtocolExecuteStep, run once the job exists.
HandleExecuteStep(participant_num, step_num, input_data, job_id) ==
    /\ ~participant.crashed
    /\ participant.handled < MaxEvents
    /\ participant.job_data[job_id] # None
    /\ LET res == handle_protocol_execute_step(get(participant.job_data[job_id]),
                                               participant_num, step_num, input_data)
       IN  participant' = [participant EXCEPT
                             !.job_data[job_id] = Some(res.worker),
                             !.crashed = (res.result = "Panic"),
                             !.sent = IF res.result = "NextStep"
                                      THEN @ + Cardinality(participant.known_participants)
                                      ELSE @,
                             !.handled = @ + 1,
                             !.last = [ type |-> "ProtocolExecuteStep",
                                        participant_num |-> participant_num,
                                        step_num |-> step_num,
                                        input_data |-> input_data, job_id |-> job_id ]]
    /\ UNCHANGED <<sharing, lwe, protocol, mac, dist, net, utils>>

\* Message::ParticipantNotificationRemoved: the peer leaves known_participants
\* and the connection to it is closed.
HandleParticipantRemoved(name) ==
    /\ ~participant.crashed
    /\ participant.handled < MaxEvents
    /\ name \in participant.known_participants
    /\ participant' = [participant EXCEPT
                         !.known_participants = @ \ {name},
                         !.handled = @ + 1,
                         !.last = [type |-> "ParticipantNotificationRemoved", name |-> name]]
    /\ UNCHANGED <<sharing, lwe, protocol, mac, dist, net, utils>>

NextParticipant ==
    \/ HandleUndecodable
    \/ \E batch \in Jobs : StartJob(batch)
    \/ \E participant_num \in Peers, step_num \in 0..MaxRound, input_data \in Payloads,
          job_id \in Jobs :
          HandleExecuteStep(participant_num, step_num, input_data, job_id)
    \/ \E name \in Peers : HandleParticipantRemoved(name)

SpecParticipant == InitParticipant /\ [][NextParticipant]_vars

-----------------------------------------------------------------------------
(* SpecRoundDiv: round_div on every dividend in -MaxDividend..MaxDividend  *)
(* and every divisor in 1..MaxDivisor.                                     *)

InitRoundDiv ==
    /\ utils \in [ pc : {"input"}, x : (-MaxDividend)..MaxDividend, q : 1..MaxDivisor,
                   out : {None} ]
    /\ sharing = Idle
    /\ lwe = Idle
    /\ protocol = Idle
    /\ mac = Idle
    /\ dist = Idle
    /\ net = Idle
    /\ participant = Idle

RoundDiv ==
    /\ utils.pc = "input"
    /\ utils' = [utils EXCEPT !.pc = "done", !.out = Some(round_div(utils.x, utils.q))]
    /\ UNCHANGED <<sharing, lwe, protocol, mac, dist, net, participant>>

NextRoundDiv == RoundDiv

SpecRoundDiv == InitRoundDiv /\ [][NextRoundDiv]_vars

-----------------------------------------------------------------------------
(* SpecDecompose: BaseDecomposition::decompose on every base in 2..MaxBase *)
(* and every value in 0..MaxValue.                                         *)

InitDecompose ==
    /\ utils \in [ pc : {"input"}, base : 2..MaxBase, value : 0..MaxValue, out : {None} ]
    /\ sharing = Idle
    /\ lwe = Idle
    /\ protocol = Idle
    /\ mac = Idle
    /\ dist = Idle
    /\ net = Idle
    /\ participant = Idle

Decompose ==
    /\ utils.pc = "input"
    /\ utils' = [utils EXCEPT !.pc = "done", !.out = Some(decompose(utils.base, utils.value))]
    /\ UNCHANGED <<sharing, lwe, protocol, mac, dist, net, participant>>

NextDecompose == Decompose

SpecDecompose == InitDecompose /\ [][NextDecompose]_vars

-----------------------------------------------------------------------------
(* SpecGate: PreprocessedGate::build as the dealer and the tests call it   *)
(* (a Sign table of B rows in ring d + 1, a LessThanZero table of D rows   *)
(* in ring m), then get_table_index_shares of one row.                     *)

GateKinds ==
    { [func |-> [kind |-> "Sign"], num_rows |-> params.big_b, field_exponent |-> params.d + 1],
      [func |-> [kind |-> "LessThanZero", modulo |-> params.big_d],
       num_rows |-> params.big_d, field_exponent |-> params.m] }

InitGate ==
    /\ \E gate \in GateKinds, secret \in 0..(params.big_d - 1), seed \in 0..MaxSeed :
          utils = [ pc |-> "input", func |-> gate.func, num_rows |-> gate.num_rows,
                    field_exponent |-> gate.field_exponent, secret |-> secret, seed |-> seed,
                    truth_table |-> None, table_index |-> None, index_shares |-> None ]
    /\ sharing = Idle
    /\ lwe = Idle
    /\ protocol = Idle
    /\ mac = Idle
    /\ dist = Idle
    /\ net = Idle
    /\ participant = Idle

GateBuild ==
    /\ utils.pc = "input"
    /\ utils' = [utils EXCEPT
                   !.pc = "built",
                   !.truth_table =
                       Some(collect(PreprocessedGate_build(utils.func, utils.secret, params.n,
                                utils.num_rows, utils.field_exponent,
                                TableDraws(utils.seed, 0, utils.num_rows, utils.field_exponent))))]
    /\ UNCHANGED <<sharing, lwe, protocol, mac, dist, net, participant>>

GateLookup ==
    /\ utils.pc = "built"
    /\ \E table_index \in 0..(utils.num_rows - 1) :
          utils' = [utils EXCEPT
                      !.pc = "looked_up",
                      !.table_index = Some(table_index),
                      !.index_shares =
                          Some(collect(get_table_index_shares(get(utils.truth_table), params.n,
                                                              table_index)))]
    /\ UNCHANGED <<sharing, lwe, protocol, mac, dist, net, participant>>

NextGate == GateBuild \/ GateLookup

SpecGate == InitGate /\ [][NextGate]_vars

-----------------------------------------------------------------------------
(* SpecPreprocessing: Preprocessing::run on its own, for every dealer      *)
(* secret s in [0, D), every mask r in [0, L) and every LWE secret key.    *)

InitPreprocessing ==
    /\ \E s \in 0..(params.big_d - 1), r \in 0..(params.big_l - 1),
          sk \in LweSecretKeys, seed \in 0..MaxSeed :
          utils = [ pc |-> "input", s |-> s, r |-> r, sk |-> sk, seed |-> seed,
                    shares |-> None ]
    /\ sharing = Idle
    /\ lwe = Idle
    /\ protocol = Idle
    /\ mac = Idle
    /\ dist = Idle
    /\ net = Idle
    /\ participant = Idle

PreprocessingRun ==
    /\ utils.pc = "input"
    /\ utils' = [utils EXCEPT
                   !.pc = "dealt",
                   !.shares = Some(Preprocessing_run(utils.s, utils.r, utils.sk, utils.seed))]
    /\ UNCHANGED <<sharing, lwe, protocol, mac, dist, net, participant>>

NextPreprocessing == PreprocessingRun

SpecPreprocessing == InitPreprocessing /\ [][NextPreprocessing]_vars

-----------------------------------------------------------------------------
(* SpecDiscovery: the registry of the discovery server.  Participants are  *)
(* started as `participant <id>` with any id and register under the name    *)
(* id.to_string(); a participant unregisters or disconnects at any time.    *)
(* The registration that brings the registry to N names deals.              *)

DecimalDigits == <<"0", "1", "2", "3", "4", "5", "6", "7", "8", "9">>

\* usize::to_string, for the ids of one digit.
to_string(id) == DecimalDigits[id + 1]

\* usize::from_str(name).unwrap(), for the names of one digit.
from_str(name) == CHOOSE id \in 0..9 : DecimalDigits[id + 1] = name

\* The ids a participant can be started with.
ParticipantIds == 0..(NumParties - 1 + MaxExtraIds)

\* preprocessing_shares[i], mac_alpha_shares[i], mac_r_shares_collection.row(i):
\* Vec and DMatrix indexing panics when i is not below N.
in_bounds(i) == i < params.n

\* The connections a participant started with one id can arrive on; the
\* Endpoint of a connection is the id with the instance.
Instances == 0..(MaxInstances - 1)

Endpoint(id, inst) == [id |-> id, inst |-> inst]

\* The messages of one event and their recipients.
send(endpoint, message) == [to |-> endpoint, message |-> message]

\* The registry as a HashMap<String, ParticipantInfo>: participants is its
\* key set and endpoints the endpoint of each entry.
registry_endpoint(registry, name) == Endpoint(from_str(name), registry.endpoints[name])

InitDiscovery ==
    /\ \E seed \in 0..MaxSeed :
          dist = [ pc |-> "serving", seed |-> seed,
                   participants |-> {},
                   endpoints |-> <<>>,
                   deals |-> 0,
                   deal |-> None,
                   files |-> <<>>,
                   started |-> {},
                   event |-> None,
                   sent |-> {},
                   walk |-> <<>> ]
    /\ sharing = Idle
    /\ lwe = Idle
    /\ protocol = Idle
    /\ mac = Idle
    /\ net = Idle
    /\ participant = Idle
    /\ utils = Idle

\* for (participant_name, info) in self.participants.iter(): parse the index,
\* write the file, send ProtocolStart; the walk stops with a panic at the
\* first name whose index is out of bounds.
walk_registry(order) ==
    LET bad == {j \in 1..Len(order) : ~in_bounds(from_str(order[j]))}
        stop == IF bad = {} THEN Len(order) + 1
                ELSE CHOOSE j \in bad : \A other \in bad : j <= other
    IN  [ written |-> {order[j] : j \in 1..(stop - 1)},
          panicked |-> bad # {},
          steps |-> [j \in 1..(2 * (stop - 1)) |->
                        IF j % 2 = 1 THEN [op |-> "write", name |-> order[(j + 1) \div 2]]
                        ELSE [op |-> "send", name |-> order[j \div 2]]] ]

\* The orders in which a HashMap with these keys can be walked.
iter(names) ==
    {order \in [1..Cardinality(names) -> names] :
        \A j, other \in 1..Cardinality(names) : order[j] = order[other] => j = other}

\* self.participants.contains_key(name), always true.
contains_key_mutant(registry, name) == TRUE

contains_key(registry, name) == name \in registry.participants

\* DiscoveryServer::register.  A name already in the registry is ignored.
\* Otherwise the new endpoint is sent the ParticipantList, every entry is
\* sent ParticipantNotificationAdded and the name is inserted.  When the
\* insertion brings the registry to N names the server deals and walks the
\* registry (a HashMap, in any order).
RegisterParticipant(id, inst) ==
    LET name == to_string(id)
        endpoint == Endpoint(id, inst)
        participants == dist.participants \cup {name}
        endpoints == collect([nm \in participants |->
                                 IF nm = name THEN inst ELSE dist.endpoints[nm]])
        event == Some([kind |-> "register", name |-> name, endpoint |-> endpoint])
        notified == {send(endpoint, "ParticipantList")}
                        \cup {send(registry_endpoint(dist, nm), "ParticipantNotificationAdded") :
                                 nm \in dist.participants}
    IN  /\ dist.pc = "serving"
        /\ (~contains_key(dist, name) /\ Cardinality(participants) = params.n)
              => dist.deals < MaxDeals
        /\ IF contains_key(dist, name)
           THEN dist' = [dist EXCEPT !.event = event, !.sent = {}, !.walk = <<>>]
           ELSE IF Cardinality(participants) # params.n
           THEN dist' = [dist EXCEPT !.participants = participants,
                                     !.endpoints = endpoints,
                                     !.event = event, !.sent = notified, !.walk = <<>>]
           ELSE    LET base == (Slot("mac_r") + MacT + 1) * params.n
                       a == DrawVec(dist.seed, base, params.lwe_dimension, params.k)
                       sk == DrawVec(dist.seed, base + params.lwe_dimension,
                                     params.lwe_dimension, params.k)
                       ptxt == Draw(dist.seed, base + 2 * params.lwe_dimension, params.m)
                       e == Draw(dist.seed, base + 2 * params.lwe_dimension + 1, params.k)
                                % (q_div_2p + 1)
                       s == Draw(dist.seed, base + 2 * params.lwe_dimension + 2, params.d + 1)
                       r == Draw(dist.seed, base + 2 * params.lwe_dimension + 3, params.l)
                       ctxt == encrypt(sk, ptxt, a, e)
                       preprocessing_shares == Preprocessing_run(s, r, sk, dist.seed)
                       mac_material == deal_mac(dist.seed)
                       deal == [ names |-> participants,
                                 preprocessing_shares |-> preprocessing_shares,
                                 mac_material |-> mac_material,
                                 a |-> ctxt.a, b |-> ctxt.b ]
                   IN  IF decrypt(sk, ctxt.a, ctxt.b) # ptxt
                       THEN dist' = [dist EXCEPT !.pc = "panicked",
                                                 !.participants = participants,
                                                 !.endpoints = endpoints,
                                                 !.event = event, !.sent = notified,
                                                 !.walk = <<>>]
                       ELSE \E order \in iter(participants) :
                               LET walked == walk_registry(order)
                               IN  dist' = [dist EXCEPT
                                     !.pc = IF walked.panicked THEN "panicked" ELSE "serving",
                                     !.participants = participants,
                                     !.endpoints = endpoints,
                                     !.deals = @ + 1,
                                     !.deal = Some(deal),
                                     !.files = collect(
                                         [nm \in (DOMAIN @) \cup walked.written |->
                                             IF nm \in walked.written
                                             THEN participant_data(from_str(nm),
                                                      preprocessing_shares, ctxt.a, ctxt.b,
                                                      mac_material)
                                             ELSE @[nm]]),
                                     !.started = @ \cup walked.written,
                                     !.event = event,
                                     !.sent = notified \cup
                                         {send(Endpoint(from_str(nm), endpoints[nm]),
                                               "ProtocolStart") : nm \in walked.written},
                                     !.walk = walked.steps]
        /\ UNCHANGED <<sharing, lwe, protocol, mac, net, participant, utils>>

\* DiscoveryServer::unregister: a name not in the registry is ignored;
\* otherwise the entry is removed, every remaining entry is sent
\* ParticipantNotificationRemoved and the server exits with the last entry.
unregister(registry, name, event) ==
    IF ~contains_key(registry, name)
    THEN [registry EXCEPT !.event = event, !.sent = {}, !.walk = <<>>]
    ELSE LET participants == registry.participants \ {name}
         IN  [registry EXCEPT
                !.pc = IF participants = {} THEN "exited" ELSE "serving",
                !.participants = participants,
                !.endpoints = collect([nm \in participants |-> @[nm]]),
                !.event = event,
                !.sent = {send(registry_endpoint(registry, nm), "ParticipantNotificationRemoved") :
                             nm \in participants},
                !.walk = <<>>]

\* Message::UnregisterParticipant(name).
UnregisterParticipant(name) ==
    /\ dist.pc = "serving"
    /\ dist' = unregister(dist, name, Some([kind |-> "unregister", name |-> name]))
    /\ UNCHANGED <<sharing, lwe, protocol, mac, net, participant, utils>>

\* NetEvent::Disconnected(endpoint): the entry with this endpoint, if there
\* is one, is unregistered.
Disconnected(id, inst) ==
    LET found == {nm \in dist.participants : registry_endpoint(dist, nm) = Endpoint(id, inst)}
        event == [kind |-> "disconnected", endpoint |-> Endpoint(id, inst)]
    IN  /\ dist.pc = "serving"
        /\ IF found = {}
           THEN dist' = [dist EXCEPT !.event = Some(event), !.sent = {}, !.walk = <<>>]
           ELSE \E name \in found :
                   dist' = unregister(dist, name, Some([event EXCEPT !.kind = "disconnected"] @@ [name |-> name]))
        /\ UNCHANGED <<sharing, lwe, protocol, mac, net, participant, utils>>

NextDiscovery ==
    \/ \E id \in ParticipantIds, inst \in Instances : RegisterParticipant(id, inst)
    \/ \E id \in ParticipantIds : UnregisterParticipant(to_string(id))
    \/ \E id \in ParticipantIds, inst \in Instances : Disconnected(id, inst)

SpecDiscovery == InitDiscovery /\ [][NextDiscovery]_vars

-----------------------------------------------------------------------------
(* SpecMacSingle: single_open and single_check as tests::test_single_check *)
(* drives them: a key and its sharing in ring k + s, a k-bit value and its  *)
(* sharing in ring k, single_open, reveal in ring k + s, single_check.      *)

InitMacSingle ==
    /\ \E seed \in 0..MaxSeed, alpha \in 0..(params.mac_big_ks - 1),
          x \in 0..(params.mac_big_k - 1) :
          mac = [ pc |-> "new", seed |-> seed, alpha |-> alpha,
                  alpha_shares |-> share(alpha, params.n, params.mac_ks,
                                         ShareDraws(seed, 0, params.mac_ks)),
                  x |-> x,
                  x_shares |-> share(x, params.n, params.mac_k,
                                     ShareDraws(seed, 1, params.mac_k)),
                  r |-> None, y_shares |-> None, y |-> None, checked_value |-> None ]
    /\ sharing = Idle
    /\ lwe = Idle
    /\ protocol = Idle
    /\ dist = Idle
    /\ net = Idle
    /\ participant = Idle
    /\ utils = Idle

MacSingleOpen ==
    /\ mac.pc = "new"
    /\ \E r \in 0..(params.mac_big_s - 1),
          r_rnd \in Vectors(params.n - 1, params.mac_big_s) :
          mac' = [mac EXCEPT
                    !.pc = "opened", !.r = Some(r),
                    !.y_shares = Some(single_open(mac.x_shares, r, r_rnd))]
    /\ UNCHANGED <<sharing, lwe, protocol, dist, net, participant, utils>>

MacSingleReveal ==
    /\ mac.pc = "opened"
    /\ mac' = [mac EXCEPT
                 !.pc = "revealed",
                 !.y = Some(reveal(get(mac.y_shares), params.mac_ks))]
    /\ UNCHANGED <<sharing, lwe, protocol, dist, net, participant, utils>>

MacSingleCheck ==
    /\ mac.pc = "revealed"
    /\ mac' = [mac EXCEPT
                 !.pc = "checked",
                 !.checked_value = Some(single_check(mac.alpha, get(mac.y), mac.alpha_shares,
                                            ShareDraws(mac.seed, 2, params.mac_ks)))]
    /\ UNCHANGED <<sharing, lwe, protocol, dist, net, participant, utils>>

NextMacSingle == MacSingleOpen \/ MacSingleReveal \/ MacSingleCheck

SpecMacSingle == InitMacSingle /\ [][NextMacSingle]_vars

-----------------------------------------------------------------------------
(* SpecModL: the comparison and the noise removal on their own, as         *)
(* tests::debug_template drives them: Protocol::new, preprocess(s, r) for  *)
(* every s in [0, D) and r in [0, L), then lt_r_l_protocol on a public z'  *)
(* or noisy_decrypt on a value z.                                          *)

InitModL ==
    /\ \E seed \in 0..MaxSeed, s \in 0..(params.big_d - 1), r \in 0..(params.big_l - 1) :
          protocol = [ pc |-> "preprocessed", seed |-> seed, s |-> s, r |-> r,
                       parties |-> preprocess(Protocol_new, s, r, seed),
                       z_prime |-> None, z |-> None, out |-> None ]
    /\ sharing = Idle
    /\ lwe = Idle
    /\ mac = Idle
    /\ dist = Idle
    /\ net = Idle
    /\ participant = Idle
    /\ utils = Idle

LtRLProtocol ==
    /\ protocol.pc = "preprocessed"
    /\ \E z_prime \in 0..(params.big_l - 1) :
          protocol' = [protocol EXCEPT
                         !.pc = "compared", !.z_prime = Some(z_prime),
                         !.parties = lt_r_l_protocol(protocol.parties, z_prime)]
    /\ UNCHANGED <<sharing, lwe, mac, dist, net, participant, utils>>

NoisyDecrypt ==
    /\ protocol.pc = "preprocessed"
    /\ \E z \in (-(params.q \div 2))..(params.q \div 2 - 1) :
          LET res == noisy_decrypt(protocol.parties, z,
                                   ShareDraws(protocol.seed, Slot("alpha"), params.k))
          IN  protocol' = [protocol EXCEPT
                             !.pc = "denoised", !.z = Some(z),
                             !.parties = res.parties, !.out = Some(res.out)]
    /\ UNCHANGED <<sharing, lwe, mac, dist, net, participant, utils>>

NextModL == LtRLProtocol \/ NoisyDecrypt

SpecModL == InitModL /\ [][NextModL]_vars

-----------------------------------------------------------------------------
(* SpecCall: SpecDist with the worker's barrier as the only guard of a     *)
(* step.  handle_protocol_execute_step runs step r when the N - 1 messages *)
(* tagged r are in the buffer, whether or not the party has run step       *)
(* r - 1: the peers can have finished step r - 1 before the party has      *)
(* handled its own round r - 1.  A getter of an unset field panics in the  *)
(* pool thread, which then runs nothing more for the worker.               *)

\* The field read by the first getter of step r, r in 1..4: get_z_prime,
\* get_y_prime, get_o_prime, get_mac_z.  No setter precedes it.
required_field(r) ==
    CASE r = 1 -> "z_prime"
      [] r = 2 -> "y_prime"
      [] r = 3 -> "o_prime"
      [] r = 4 -> "mac_z"

\* A getter that returns the default value of an unset field.
getter_mutant(party, field_name) ==
    [ panic |-> None,
      value |-> IF party[field_name] = None THEN 0 ELSE get(party[field_name]) ]

\* The generated getter: expect() on the Option, the panic message names the
\* field.
getter(party, field_name) ==
    IF party[field_name] = None
    THEN [ panic |-> Some(field_name), value |-> 0 ]
    ELSE [ panic |-> None, value |-> get(party[field_name]) ]

\* execute_step on a party in any state: the outcome of the first getter,
\* then the step.
execute_step_or_panic(party, r, input) ==
    IF r = 0
    THEN [ panic |-> None, res |-> execute_step(party, r, input) ]
    ELSE IF getter(party, required_field(r)).panic # None
    THEN [ panic |-> getter(party, required_field(r)).panic,
           res |-> [party |-> party, output |-> ProtocolTransferredData_empty] ]
    ELSE [ panic |-> None,
           res |-> execute_step(
                       [party EXCEPT
                           ![required_field(r)] =
                               Some(getter(party, required_field(r)).value)],
                       r, input) ]

InitCall ==
    /\ \E seed \in 0..MaxSeed :
          dist = [ pc |-> "registering", seed |-> seed,
                   sk |-> None, ptxt |-> None, a |-> None, b |-> None,
                   files |-> None,
                   workers |-> [i \in PartyIds |-> None],
                   next_step |-> [i \in PartyIds |-> 0],
                   sent |-> [i \in PartyIds |-> <<>>],
                   result |-> [i \in PartyIds |-> "None"],
                   msg |-> [i \in PartyIds |-> None],
                   z_sum |-> [i \in PartyIds |-> None],
                   called |-> [i \in PartyIds |-> None],
                   panic |-> [i \in PartyIds |-> None] ]
    /\ sharing = Idle
    /\ lwe = Idle
    /\ protocol = Idle
    /\ mac = Idle
    /\ net = Idle
    /\ participant = Idle
    /\ utils = Idle

\* The message that completes the N - 1 of round step_num is handled by
\* participant i, which has not run that step.
CallStep(i, step_num) ==
    /\ dist.pc = "dealt"
    /\ dist.workers[i] # None
    /\ dist.panic[i] = None
    /\ step_num >= dist.next_step[i]
    /\ \A j \in PartyIds \ {i} : Len(dist.sent[j]) > step_num
    /\ LET outcome == execute_step_or_panic(get(dist.workers[i]), step_num,
                                            step_input(dist.sent, i, step_num))
           res == outcome.res
           next_step_num == IF step_num = STEP_COUNT THEN 0 ELSE step_num + 1
       IN  IF outcome.panic # None
           THEN dist' = [dist EXCEPT !.called[i] = Some(step_num),
                                     !.panic[i] = outcome.panic]
           ELSE dist' = [dist EXCEPT
                      !.called[i] = Some(step_num),
                      !.workers[i] = Some(res.party),
                      !.next_step[i] = next_step_num,
                      !.sent[i] = IF next_step_num = STEP_COUNT THEN @ ELSE Append(@, res.output),
                      !.result[i] = IF next_step_num = STEP_COUNT THEN "Finished" ELSE "NextStep",
                      !.msg[i] = IF step_num = 3 THEN Some(res.msg) ELSE @,
                      !.z_sum[i] = IF step_num = 4 THEN Some(res.z_sum) ELSE @]
    /\ UNCHANGED <<sharing, lwe, protocol, mac, net, participant, utils>>

NextCall ==
    \/ Register
    \/ \E i \in PartyIds : ProtocolStart(i)
    \/ \E i \in PartyIds, step_num \in 0..(STEP_COUNT - 1) : CallStep(i, step_num)

SpecCall == InitCall /\ [][NextCall]_vars

-----------------------------------------------------------------------------
(* SpecParams: PublicParameters::init for every k in 2..MaxCtxtBits, m in  *)
(* 1..k-1 and b in 1..MaxDigitBits, then the zero-padded digit vector of a  *)
(* value in [0, L) as round 2 and the dealer build it.                      *)

InitParams ==
    /\ \E k \in 2..MaxCtxtBits, b \in 1..MaxDigitBits :
          \E m \in 1..(k - 1) :
              utils = [ pc |-> "input", k |-> k, m |-> m, b |-> b,
                        params |-> None, value |-> None,
                        decomposition |-> None, digits |-> None ]
    /\ sharing = Idle
    /\ lwe = Idle
    /\ protocol = Idle
    /\ mac = Idle
    /\ dist = Idle
    /\ net = Idle
    /\ participant = Idle

ParamsInit ==
    /\ utils.pc = "input"
    /\ utils' = [utils EXCEPT
                   !.pc = "initialised",
                   !.params = Some(PublicParameters_init(NumParties, utils.k, utils.m, utils.b,
                                                         LweDimension, MacSBits))]
    /\ UNCHANGED <<sharing, lwe, protocol, mac, dist, net, participant>>

\* execute_step_two and Preprocessing::run: decompose, then DVector::from_fn(d).
PadDigits ==
    /\ utils.pc = "initialised"
    /\ \E value \in 0..(get(utils.params).big_l - 1) :
          utils' = [utils EXCEPT
                      !.pc = "digits", !.value = Some(value),
                      !.decomposition = Some(decompose(get(utils.params).big_b, value)),
                      !.digits = Some(collect(pad_digits(
                                     decompose(get(utils.params).big_b, value),
                                     get(utils.params).d)))]
    /\ UNCHANGED <<sharing, lwe, protocol, mac, dist, net, participant>>

NextParams == ParamsInit \/ PadDigits

SpecParams == InitParams /\ [][NextParams]_vars

-----------------------------------------------------------------------------
(* SpecLocks: the two process-wide locks of a participant, NETWORK_SENDER  *)
(* (a Mutex) and known_participants (a RwLock), taken by the network event  *)
(* thread in its handlers and by the pool threads in                        *)
(* send_result_to_everyone.  Every lock() / read() / write() is one step.   *)

PoolThreads == 1..ThreadCount

\* The thread of Participant::run, before the pool threads.
EventThread == 0

Threads == {EventThread} \cup PoolThreads

\* The locks a code path takes, in the order of its statements; every guard
\* is held to the end of the path.
lock_order(thread) ==
    LET path == thread.path
    IN
    CASE path = "Connected" ->
             IF thread.established THEN <<"NETWORK_SENDER", "known_participants.write">>
             ELSE <<"NETWORK_SENDER">>
      [] path = "ParticipantNotificationRemoved" ->
             <<"known_participants.write", "NETWORK_SENDER">>
      [] path = "discovered_participant" -> <<"NETWORK_SENDER">>
      [] path = "Disconnected" -> <<"NETWORK_SENDER">>
      [] path = "send_result_to_everyone" -> <<"known_participants.read", "NETWORK_SENDER">>

EventPaths == {"Connected", "ParticipantNotificationRemoved", "discovered_participant",
               "Disconnected"}

\* The locks a thread holds: the first `held` locks of its path.
holds(thread) ==
    IF thread = None THEN {}
    ELSE {lock_order(get(thread))[j] : j \in 1..get(thread).held}

\* Mutex::lock, RwLock::read and RwLock::write return when no other thread
\* holds a conflicting guard.
conflicts(lock) ==
    CASE lock = "NETWORK_SENDER" -> {"NETWORK_SENDER"}
      [] lock = "known_participants.read" -> {"known_participants.write"}
      [] lock = "known_participants.write" ->
             {"known_participants.read", "known_participants.write"}

\* The thread is blocked in the next lock of its path.
waiting(t) ==
    /\ participant.threads[t] # None
    /\ get(participant.threads[t]).held < Len(lock_order(get(participant.threads[t])))
    /\ \E other \in Threads \ {t} :
          holds(participant.threads[other])
              \cap conflicts(lock_order(get(participant.threads[t]))
                                 [get(participant.threads[t]).held + 1]) # {}

InitLocks ==
    /\ participant = [ pc |-> "running",
                       threads |-> [t \in Threads |-> None],
                       greetings |-> {},
                       known_participants |-> {},
                       sent |-> [t \in PoolThreads |-> None] ]
    /\ sharing = Idle
    /\ lwe = Idle
    /\ protocol = Idle
    /\ mac = Idle
    /\ dist = Idle
    /\ net = Idle
    /\ utils = Idle

\* A thread enters a code path: the event thread one of its handlers for the
\* next event, a pool thread the broadcast at the end of its task.
EnterPath(t, path, name, established) ==
    /\ participant.threads[t] = None
    /\ IF t = EventThread THEN path \in EventPaths ELSE path = "send_result_to_everyone"
    /\ path = "Connected" => name \in participant.greetings
    /\ path # "Connected" => established
    /\ path \in {"Disconnected", "send_result_to_everyone"} => name = 1
    /\ participant' = [participant EXCEPT
                         !.threads[t] = Some([path |-> path, name |-> name,
                                              established |-> established, held |-> 0])]
    /\ UNCHANGED <<sharing, lwe, protocol, mac, dist, net, utils>>

\* The next lock of the path is free and the thread takes it.
TakeLock(t) ==
    /\ participant.threads[t] # None
    /\ get(participant.threads[t]).held < Len(lock_order(get(participant.threads[t])))
    /\ ~waiting(t)
    /\ participant' = [participant EXCEPT !.threads[t] = Some([get(@) EXCEPT !.held = @ + 1])]
    /\ UNCHANGED <<sharing, lwe, protocol, mac, dist, net, utils>>

\* With every lock of the path held the thread does the work of the path and
\* drops the guards.
LeavePath(t) ==
    LET thread == get(participant.threads[t])
    IN  /\ participant.threads[t] # None
        /\ thread.held = Len(lock_order(thread))
        /\ participant' = [participant EXCEPT
              !.threads[t] = None,
              !.greetings =
                  CASE thread.path = "discovered_participant" -> @ \cup {thread.name}
                    [] thread.path = "Connected" -> @ \ {thread.name}
                    [] OTHER -> @,
              !.known_participants =
                  CASE thread.path = "Connected" /\ thread.established -> @ \cup {thread.name}
                    [] thread.path = "ParticipantNotificationRemoved" -> @ \ {thread.name}
                    [] OTHER -> @,
              !.sent = IF thread.path = "send_result_to_everyone"
                       THEN [@ EXCEPT ![t] = Some(participant.known_participants)]
                       ELSE @]
        /\ UNCHANGED <<sharing, lwe, protocol, mac, dist, net, utils>>

NextLocks ==
    \/ \E t \in Threads, path \in EventPaths \cup {"send_result_to_everyone"},
          name \in Peers, established \in BOOLEAN :
          EnterPath(t, path, name, established)
    \/ \E t \in Threads : TakeLock(t)
    \/ \E t \in Threads : LeavePath(t)

SpecLocks == InitLocks /\ [][NextLocks]_vars

-----------------------------------------------------------------------------
(* Properties                                                              *)

\* C8: share(x, N, e) returns exactly N shares, and reveal of them with
\* exponent e equals x mod_floor 2^e, for every x (negative included), every
\* N >= 2, every e > 0 and every outcome of the draws.
C8_ShareRevealRoundTrip ==
    /\ sharing.pc \in {"shared", "revealed"} =>
          VecLen(get(sharing.shares)) = sharing.num_shares
    /\ sharing.pc = "revealed" =>
          get(sharing.revealed) = sharing.secret % Pow2(sharing.ring_exponent)

\* A negative secret below -2^e was shared among more than two parties and revealed.
C8_Witness ==
    /\ sharing.pc = "revealed"
    /\ sharing.secret < -Pow2(sharing.ring_exponent)
    /\ sharing.num_shares > 2
    /\ get(sharing.revealed) # 0

\* C7: decrypt(encrypt(m)) = m for every plaintext m in [0, p), every a and
\* every error value the sampler of encrypt can return.
C7_LweRoundTrip ==
    lwe.pc = "decrypted" => get(lwe.out) = get(lwe.ptxt)


\* C1: in the single-process run, the value Protocol::decrypt returns after
\* preprocess and share_sk is LweScheme::decrypt of the ciphertext, and it is
\* the plaintext that was encrypted.
C1_ProtocolDecryptsPlaintext ==
    protocol.pc \in {"decrypted", "tampered"} =>
        /\ get(protocol.out) = decrypt(lwe.sk, get(lwe.a), get(lwe.b))
        /\ get(protocol.out) = get(lwe.ptxt)

\* C10: when one party has changed its o' share before the share matrix is
\* batch-opened, batch_check on the opened values rejects.
C10_TamperedShareRejected ==
    (protocol.pc = "tampered" /\ mac.pc = "checked") => mac.checked_values = None

\* The values the columns of a share matrix stand for, in ring k.
column_values(x_shares_collection, t) ==
    [j \in 0..(t - 1) |->
        mod_floor(VecSum([i \in PartyIds |-> x_shares_collection[<<i, j>>]]),
                  params.mac_big_k)]

\* C9: batch_check applied to the output of batch_open accepts, and returns
\* for each column the sum of the column's shares modulo 2^k.
C9_BatchCheckAcceptsHonest ==
    mac.pc = "checked" =>
        /\ mac.checked_values # None
        /\ get(mac.checked_values)
              = column_values(mac.x_shares_collection, VecLen(mac.x_tilde_shares))

C9_Witness ==
    /\ mac.pc = "checked"
    /\ protocol = Idle
    /\ mac.alpha > 1
    /\ \A j \in 0..(MacBatch - 1) :
          /\ get(mac.r_vals)[j] # 0
          /\ get(mac.chi_vals)[j] # 0
          /\ mac.x_tilde_shares[j] >= params.mac_big_k
    /\ mac.checked_values # None
    /\ get(mac.checked_values)[0] # get(mac.checked_values)[1]

\* The sum of the MAC contributions the parties publish in round 4.
mac_z_sum == VecSum([i \in PartyIds |-> get(get(dist.workers[i]).mac_z)])

\* C2: in the honest distributed run the MAC contributions published in
\* round 4 sum to 0 modulo 2^(k+s).
C2_DistributedMacAccepts ==
    (\A i \in PartyIds : dist.next_step[i] >= 4) =>
        mod_floor(mac_z_sum, params.mac_big_ks) = 0

\* C3: a job whose round-5 sum is not 0 modulo 2^(k+s) does not end Finished.
C3_MacFailureAborts ==
    \A i \in PartyIds :
        (dist.z_sum[i] # None /\ mod_floor(get(dist.z_sum[i]), params.mac_big_ks) # 0)
            => dist.result[i] # "Finished"

\* Protocol::decrypt on parties holding the same bundles and ciphertext.
single_process_output ==
    Protocol_decrypt(collect([i \in PartyIds |-> handle_protocol_start(i, get(dist.files)[i])]),
                     get(dist.a), get(dist.b)).msg

\* C4: the plaintext every party obtains from the o' shares of rounds 1-3 is
\* the output of Protocol::decrypt on the same ciphertext and bundles.
C4_DistributedMatchesSingleProcess ==
    \A i \in PartyIds :
        dist.msg[i] # None => get(dist.msg[i]) = single_process_output

\* The steps of the job that participant p has entered, in order.
executed_steps(p) ==
    IF net.job_data[p] = None THEN <<>> ELSE get(net.job_data[p]).executed

\* The buffer of the job at participant p.
buffered(p) ==
    IF net.job_data[p] = None THEN <<>> ELSE get(net.job_data[p]).steps_bulk_data

\* C5: round barrier.  A handler that enters step r leaves the buffer with
\* round-r messages from N - 1 distinct senders; a handler that leaves fewer
\* than N - 1 messages of its round in the buffer (the NoReady return) enters
\* no step and sends nothing.
C5_RoundBarrier ==
    [][\A p \in PartyIds :
          /\ executed_steps(p)' # executed_steps(p) =>
                /\ Len(executed_steps(p)') = Len(executed_steps(p)) + 1
                /\ step_bulk_count(buffered(p)',
                                   executed_steps(p)'[Len(executed_steps(p)')]) = params.n - 1
          /\ \A key \in (DOMAIN buffered(p)') \ (DOMAIN buffered(p)) :
                step_bulk_count(buffered(p)', key[1]) < params.n - 1 =>
                    /\ executed_steps(p)' = executed_steps(p)
                    /\ net.chan' = net.chan]_vars

\* A participant has answered NoReady to a round-1 message after it entered
\* step 0 on the second round-0 message.
C5_Witness ==
    \E p \in PartyIds :
        /\ net # Idle
        /\ executed_steps(p) = <<0>>
        /\ step_bulk_count(buffered(p), 0) = params.n - 1
        /\ step_bulk_count(buffered(p), 1) = 1

\* C6: out-of-order tolerance.  At every participant the steps of the job are
\* entered in the order 0, 1, 2, ... under every delivery order and every
\* schedule of the handler tasks, and no handler fails.
C6_StepsInOrder ==
    net # Idle =>
        \A p \in PartyIds :
            /\ \A k \in 1..Len(executed_steps(p)) : executed_steps(p)[k] = k - 1
            /\ ~net.crashed[p]


\* The keys and challenge vectors the MAC check can be run with.
MacChoices == (0..(params.mac_big_ks - 1)) \X Vectors(MacT, params.mac_big_s)

\* batch_open then batch_check of the (z', y', o') matrix of the parties under
\* the key alpha and the challenges chi_vals; the masks are those of the run.
mac_accepts(parties, seed, alpha, chi_vals) ==
    LET r_vals == [j \in 0..(MacT - 1) |->
                     Draw(seed, (Slot("mac_r") + j) * params.n + params.n - 1, params.mac_s)]
        r_rnd == [j \in 0..(MacT - 1) |-> ShareDraws(seed, Slot("mac_r") + j, params.mac_s)]
        opened == batch_open(alpha, x_shares_of(parties), MacT, r_vals, r_rnd)
        alpha_shares == share(alpha, params.n, params.mac_ks,
                              ShareDraws(seed, Slot("alpha"), params.mac_ks))
    IN  batch_check(opened.x_tilde_shares, alpha_shares, opened.m_tilde_collection,
                    chi_vals) # None

\* C11: tamper detection bound.  When one party has replaced the share it
\* emitted by a different value, the MAC check accepts for at most a 2^(-s)
\* fraction of the choices of key and challenge vector.
C11_TamperDetectionBound ==
    protocol.pc = "tampered" =>
        Cardinality({c \in MacChoices : mac_accepts(protocol.parties, protocol.seed, c[1], c[2])})
            * params.mac_big_s <= Cardinality(MacChoices)

\* C12: progress.  With every participant registered, no disconnection and no
\* lost message, under fair scheduling every participant eventually executes
\* the five steps of the job.
C12_Progress ==
    <>(\A p \in PartyIds : Len(executed_steps(p)) = STEP_COUNT /\ ~net.crashed[p])

\* How many times x occurs in seq.
occurrences(seq, x) == Cardinality({k \in 1..Len(seq) : seq[k] = x})

\* The steps participant p has run to their end: a step that panicked is the
\* last one entered and wrote no field.
completed_steps(p) ==
    IF net.crashed[p]
    THEN SubSeq(executed_steps(p), 1, Len(executed_steps(p)) - 1)
    ELSE executed_steps(p)

\* C13: exactly-once steps.  No participant runs a step of the job twice, and
\* once the round-r messages of all its peers are in its buffer it has run
\* step r once, under every interleaving of the handler tasks.
C13_StepsExactlyOnce ==
    net # Idle =>
        \A p \in PartyIds, r \in 0..(STEP_COUNT - 1) :
            /\ occurrences(completed_steps(p), r) <= 1
            /\ step_bulk_count(buffered(p), r) = params.n - 1 =>
                   occurrences(completed_steps(p), r) = 1

\* The buffer of job j in a state of the participant.
job_buffer(state, j) == get(state.job_data[j]).steps_bulk_data

\* C14: job isolation.  Handling ProtocolExecuteStep(source, step, payload,
\* job) puts the payload in the buffer of that job under the key (step,
\* source), keeps the other entries of that buffer, and leaves the worker of
\* every other job as it was.
C14_JobIsolation ==
    [][LET msg == participant'.last
       IN  (msg.type = "ProtocolExecuteStep" /\ participant'.handled # participant.handled) =>
              /\ \A j \in Jobs \ {msg.job_id} :
                    participant'.job_data[j] = participant.job_data[j]
              /\ DOMAIN job_buffer(participant', msg.job_id) =
                    DOMAIN job_buffer(participant, msg.job_id) \cup {<<msg.step_num, msg.participant_num>>}
              /\ job_buffer(participant', msg.job_id)[<<msg.step_num, msg.participant_num>>] = msg.input_data
              /\ \A k \in DOMAIN job_buffer(participant, msg.job_id) \ {<<msg.step_num, msg.participant_num>>} :
                    job_buffer(participant', msg.job_id)[k] = job_buffer(participant, msg.job_id)[k]]_vars

\* Both jobs exist, job 0 holds a round-0 message of peer 1, and the message
\* just handled, from peer 2 for round 1 of job 1, is the only entry of job 1.
C14_Witness ==
    /\ participant # Idle
    /\ participant.last.type = "ProtocolExecuteStep"
    /\ participant.last.job_id = 1
    /\ participant.last.participant_num = 2
    /\ participant.job_data[0] # None
    /\ DOMAIN job_buffer(participant, 0) = {<<0, 1>>}
    /\ DOMAIN job_buffer(participant, 1) = {<<1, 2>>}
    /\ job_buffer(participant, 1)[<<1, 2>>] = "bytes_b"

\* What the message sent under tag step_num by a party must hold: nothing
\* under tag 0, and under tag r > 0 the share that step r - 1 has stored.
expected_message(party, step_num) ==
    CASE step_num = 0 -> ProtocolTransferredData_empty
      [] step_num = 1 -> [ProtocolTransferredData_empty EXCEPT
                            !.z_prime = Some(serialize(get(party.z_prime)))]
      [] step_num = 2 -> [ProtocolTransferredData_empty EXCEPT
                            !.y_prime = Some(serialize(get(party.y_prime)))]
      [] step_num = 3 -> [ProtocolTransferredData_empty EXCEPT
                            !.o_prime = Some(serialize(get(party.o_prime)))]
      [] step_num = 4 -> [ProtocolTransferredData_empty EXCEPT
                            !.mac_z = Some(serialize(get(party.mac_z)))]

\* C15: message content per round.  Every message a party has sent holds the
\* share of its round in the field of its round and nothing in any other
\* field, and the output of the fifth step holds nothing.
C15_MessageContentPerRound ==
    dist.pc = "dealt" =>
        \A i \in PartyIds :
            /\ Len(dist.sent[i]) <= STEP_COUNT
            /\ \A idx \in 1..Len(dist.sent[i]) :
                  dist.sent[i][idx] = expected_message(get(dist.workers[i]), idx - 1)
            /\ (dist.next_step[i] = STEP_COUNT - 1
                  /\ \A j \in PartyIds \ {i} : Len(dist.sent[j]) = STEP_COUNT) =>
                   execute_step(get(dist.workers[i]), STEP_COUNT - 1,
                                step_input(dist.sent, i, STEP_COUNT - 1)).output
                       = ProtocolTransferredData_empty

\* Every participant has sent its five messages and finished the job.
C15_Witness ==
    /\ dist # Idle
    /\ dist.pc = "dealt"
    /\ \A i \in PartyIds : Len(dist.sent[i]) = STEP_COUNT /\ dist.result[i] = "Finished"

\* C16: decode errors.  A message whose bytes or whose payload do not
\* deserialize is dropped: no buffer changes, no step executes, nothing is
\* sent and the process keeps running.
C16_DecodeErrorDropped ==
    [][LET msg == participant'.last
       IN  (/\ participant'.handled # participant.handled
            /\ \/ msg.type = "Undecodable"
               \/ msg.type = "ProtocolExecuteStep" /\ ~decodes(msg.input_data)) =>
              /\ participant'.job_data = participant.job_data
              /\ participant'.sent = participant.sent
              /\ ~participant'.crashed]_vars

\* C17: peer disconnect cancels jobs.  Once the participant has been told
\* that a peer was removed, none of its jobs executes a further step or
\* sends a further message.
C17_RemovalCancelsJobs ==
    [][participant.known_participants # Peers =>
          /\ \A j \in Jobs :
                participant.job_data[j] # None =>
                    get(participant'.job_data[j]).executed = get(participant.job_data[j]).executed
          /\ (\A j \in Jobs : (participant'.job_data[j] = None) = (participant.job_data[j] = None)) =>
                participant'.sent = participant.sent]_vars

\* An unset field, or a residue of the ring of the given modulus.
is_residue(field, modulus) == field = None \/ get(field) \in 0..(modulus - 1)

\* Every entry of a vector or matrix field is a residue.
all_residues(field, modulus) ==
    field = None \/ \A x \in DOMAIN get(field) : get(field)[x] \in 0..(modulus - 1)

\* C18: no negative residues.  Every value stored in a field of a Party is in
\* [0, modulus) of its ring: z, e, o', r and sk modulo q, z' modulo L, y, y',
\* s and the sign tables modulo 2^(d+1), u and the less-than-zero table modulo
\* p, the MAC z modulo 2^(k+s).
C18_NoNegativeResidues ==
    dist.pc = "dealt" =>
        \A i \in PartyIds :
            dist.workers[i] # None =>
                LET party == get(dist.workers[i])
                IN  /\ is_residue(party.z, params.q)
                    /\ is_residue(party.z_prime, params.big_l)
                    /\ is_residue(party.y, params.big_d)
                    /\ is_residue(party.y_prime, params.big_d)
                    /\ is_residue(party.u, params.p)
                    /\ is_residue(party.e, params.q)
                    /\ is_residue(party.o_prime, params.q)
                    /\ is_residue(party.mac_z, params.mac_big_ks)
                    /\ is_residue(party.r, params.q)
                    /\ is_residue(party.s, params.big_d)
                    /\ all_residues(party.sk, params.q)
                    /\ all_residues(party.ltz, params.p)
                    /\ all_residues(party.signs, params.big_d)

\* The number of outcomes of the draws of share(secret, num_shares,
\* ring_exponent) whose shares, at every position but left_out, are those of view.
views_count(secret, num_shares, ring_exponent, left_out, view) ==
    Cardinality({rnd \in Vectors(num_shares - 1, Pow2(ring_exponent)) :
                    \A i \in (0..(num_shares - 1)) \ {left_out} :
                        share(secret, num_shares, ring_exponent, rnd)[i] = view[i]})

\* C19: perfect privacy.  For the shares just produced and every set of N - 1
\* positions, as many outcomes of the draws give these N - 1 shares for any
\* other secret as for the secret that was shared.
C19_PerfectPrivacy ==
    sharing.pc = "shared" =>
        \A left_out \in 0..(sharing.num_shares - 1), x \in (-MaxSecret)..MaxSecret :
            views_count(x, sharing.num_shares, sharing.ring_exponent, left_out,
                        get(sharing.shares))
                = views_count(sharing.secret, sharing.num_shares, sharing.ring_exponent,
                              left_out, get(sharing.shares))

\* Three parties, the largest ring: the shares of parties 1 and 2, the last
\* share included, arise from exactly one outcome of the draws for the secret
\* shared and for a different secret.
C19_Witness ==
    /\ sharing.pc = "shared"
    /\ sharing.num_shares = NumParties
    /\ sharing.ring_exponent = MaxExponent
    /\ sharing.secret = 3
    /\ views_count(-2, sharing.num_shares, sharing.ring_exponent, 0, get(sharing.shares)) = 1
    /\ views_count(3, sharing.num_shares, sharing.ring_exponent, 0, get(sharing.shares)) = 1

\* C20: round_div(x, q), q > 0, is a nearest integer to x/q (twice its
\* distance to x/q is at most 1, that is |2 * (out * q - x)| <= q), and where
\* x/q lies halfway between two integers it is the one farther from zero.
C20_RoundDivNearestTiesAway ==
    utils.pc = "done" =>
        LET out == get(utils.out)
        IN  /\ Abs(2 * (out * utils.q - utils.x)) <= utils.q
            /\ Abs(2 * (out * utils.q - utils.x)) = utils.q =>
                   Abs(out * utils.q) > Abs(utils.x)

\* The value of a digit sequence, least significant digit first.
RECURSIVE digits_value(_, _)
digits_value(base, digits) ==
    IF digits = <<>> THEN 0 ELSE Head(digits) + base * digits_value(base, Tail(digits))

\* C21: base decomposition round trip.  decompose(B, x), x >= 0, B >= 2,
\* returns digits in [0, B), least significant first, whose weighted sum is
\* x, with a non-zero last digit; it is empty for x = 0.
C21_DecomposeRoundTrip ==
    utils.pc = "done" =>
        LET digits == get(utils.out)
        IN  /\ \A j \in 1..Len(digits) : digits[j] \in 0..(utils.base - 1)
            /\ digits_value(utils.base, digits) = utils.value
            /\ digits # <<>> => digits[Len(digits)] # 0
            /\ utils.value = 0 => digits = <<>>

\* 13 in base 2 gave the four digits 1, 0, 1, 1.
C21_Witness ==
    /\ utils.pc = "done"
    /\ utils.base = 2
    /\ utils.value = 13
    /\ get(utils.out) = <<1, 0, 1, 1>>

\* C22: gate-table lookup.  The N entries of row y of a built table sum,
\* modulo 2^e, to f(y, s) mod 2^e: for Sign 2^(d+1) - 1 when y < s, 0 when
\* y = s, 1 when y > s; for LessThanZero 1 exactly when (y - s) mod D >= D/2,
\* and 0 otherwise.
C22_GateTableLookup ==
    utils.pc = "looked_up" =>
        LET y == get(utils.table_index)
            s == utils.secret
            row == get(utils.index_shares)
            value == mod_floor(VecSum(row), Pow2(utils.field_exponent))
        IN  /\ VecLen(row) = params.n
            /\ value = mod_floor(apply(utils.func, y, s), Pow2(utils.field_exponent))
            /\ utils.func.kind = "Sign" =>
                   value = (IF y < s THEN Pow2(params.d + 1) - 1 ELSE IF y = s THEN 0 ELSE 1)
            /\ utils.func.kind = "LessThanZero" =>
                   value = (IF mod_floor(y - s, params.big_d) >= params.big_d \div 2
                            THEN 1 ELSE 0)

\* A row of a Sign table below the secret was read: its entries, not all
\* zero, sum to -1 in the ring.
C22_Witness ==
    /\ utils.pc = "looked_up"
    /\ utils.func.kind = "Sign"
    /\ get(utils.table_index) < utils.secret
    /\ \E j \in PartyIds : get(utils.index_shares)[j] # 0
    /\ mod_floor(VecSum(get(utils.index_shares)), Pow2(utils.field_exponent))
           = Pow2(utils.field_exponent) - 1

\* C23: Preprocessing::run(s, r, sk) with s in [0, D) and r in [0, L) returns
\* N bundles whose s shares sum to s modulo 2^(d+1), whose r shares sum to r
\* modulo 2^k, whose shares of each sk entry sum to that entry modulo 2^k,
\* whose ltz columns have D rows, whose signs matrices have shape B x d, and
\* whose entries signs_i[v, j] sum modulo 2^(d+1) to Sign(v, j-th base-B
\* digit of r).
C23_DealerOutput ==
    utils.pc = "dealt" =>
        LET shares == get(utils.shares)
            ring_s == Pow2(params.d + 1)
            digit(j) == (utils.r \div Pow2(params.b * j)) % params.big_b
        IN  /\ DOMAIN shares = PartyIds
            /\ mod_floor(SumTo([i \in PartyIds |-> shares[i].s], params.n), ring_s)
                  = mod_floor(utils.s, ring_s)
            /\ mod_floor(SumTo([i \in PartyIds |-> shares[i].r], params.n), params.q)
                  = mod_floor(utils.r, params.q)
            /\ \A i \in PartyIds : DOMAIN shares[i].sk = DOMAIN utils.sk
            /\ \A c \in DOMAIN utils.sk :
                  mod_floor(SumTo([i \in PartyIds |-> shares[i].sk[c]], params.n), params.q)
                      = mod_floor(utils.sk[c], params.q)
            /\ \A i \in PartyIds :
                  /\ DOMAIN shares[i].ltz = 0..(params.big_d - 1)
                  /\ DOMAIN shares[i].signs
                       = (0..(params.big_b - 1)) \X (0..(params.d - 1))
            /\ \A v \in 0..(params.big_b - 1), j \in 0..(params.d - 1) :
                  mod_floor(SumTo([i \in PartyIds |-> shares[i].signs[<<v, j>>]], params.n),
                            ring_s)
                      = mod_floor(apply([kind |-> "Sign"], v, digit(j)), ring_s)

\* A run whose mask has two different digits and whose dealer secret is not 0.
C23_Witness ==
    /\ utils.pc = "dealt"
    /\ utils.r = 1
    /\ utils.s = 5
    /\ mod_floor(SumTo([i \in PartyIds |-> get(utils.shares)[i].signs[<<0, 0>>]], params.n),
                 Pow2(params.d + 1)) = Pow2(params.d + 1) - 1
    /\ mod_floor(SumTo([i \in PartyIds |-> get(utils.shares)[i].signs[<<0, 1>>]], params.n),
                 Pow2(params.d + 1)) = 0

\* C24: when the discovery server deals, each of the N registered
\* participants is handed exactly one bundle index in 0..N-1, no two of them
\* are handed the same index, and the bundle written for a participant
\* contains only that index of every share vector and table.
C24_ShareOwnershipAtDistribution ==
    dist.deal # None =>
        LET deal == get(dist.deal)
        IN  /\ \A name \in deal.names :
                  /\ from_str(name) \in 0..(params.n - 1)
                  /\ name \in DOMAIN dist.files
            /\ \A n1 \in deal.names, n2 \in deal.names :
                  n1 # n2 => from_str(n1) # from_str(n2)
            /\ \A name \in DOMAIN dist.files :
                  LET i == from_str(name)
                      file == dist.files[name]
                  IN  /\ get(file.preprocessed) = deal.preprocessing_shares[i]
                      /\ get(file.mac_alpha) = deal.mac_material.mac_alpha_shares[i]
                      /\ \A j \in 0..(MacT - 1) :
                            get(file.mac_r)[j]
                                = deal.mac_material.mac_r_shares_collection[<<i, j>>]


\* C25: in round 4 each party i computes its MAC share from its own row only:
\* the three x-tilde values it multiplies by its key share alpha_i are its own
\* shares of z', y' and o', each plus 2^k times its own mask share.
C25_MacOverOwnRow ==
    dist.pc = "dealt" =>
        \A i \in PartyIds :
            (dist.workers[i] # None /\ IsSet(get(dist.workers[i]).mac_z)) =>
                LET party == get(dist.workers[i])
                    rows == step_four_x_tilde(party, get(party.o_prime_all_parties))
                    own == <<get(party.z_prime), get(party.y_prime), get(party.o_prime)>>
                IN  \A j \in 0..(MacT - 1) :
                        rows[<<party.party_number, j>>]
                            = own[j + 1] + get(party.mac_r)[j] * params.mac_big_k

\* The shares z_i once every party has run round 1.
round_one_done ==
    /\ dist.pc = "dealt"
    /\ \A i \in PartyIds : dist.workers[i] # None /\ IsSet(get(dist.workers[i]).z)

z_shares == [i \in PartyIds |-> get(get(dist.workers[i]).z)]

C27_DecryptOffsetModuloQ ==
    lwe.pc = "decrypted" =>
        /\ get(lwe.out)
              = mod_floor(Dot(get(lwe.a), lwe.sk) + get(lwe.b) + q_div_2p, params.q)
                    \div Pow2(params.k - params.m)
        /\ get(lwe.out) \in 0..(params.p - 1)

\* C28: for every k-bit value x shared among N parties, every key alpha whose
\* shares sum to alpha modulo 2^(k+s) and every mask, single_check applied to
\* y = reveal(single_open(x shares)) in the ring 2^(k+s) accepts and returns x.
C28_SingleValueMac ==
    /\ mac.pc \in {"opened", "revealed", "checked"} =>
          VecLen(get(mac.y_shares)) = params.n
    /\ mac.pc = "checked" => get(mac.checked_value) = Some(mac.x)

\* An accepted check of a non-zero value under a non-zero key and mask, the
\* shares of the value wrapping around 2^k.
C28_Witness ==
    /\ mac.pc = "checked"
    /\ get(mac.checked_value) = Some(mac.x)
    /\ mac.x # 0
    /\ mac.alpha # 0
    /\ get(mac.r) # 0
    /\ VecSum(mac.x_shares) >= params.mac_big_k

\* The value shared by the u shares of the parties, in the ring 2^m.
u_revealed == mod_floor(SumTo([i \in PartyIds |-> get(protocol.parties[i].u)], params.n), params.p)

\* C29: for every public z' in [0, L), every mask r in [0, L) and every dealer
\* secret s in [0, D), the shares u_i that lt_r_l_protocol assigns to the
\* parties sum modulo 2^m to 1 if z' < r and to 0 otherwise.
C29_ComparisonByTables ==
    protocol.pc = "compared" =>
        u_revealed = (IF get(protocol.z_prime) < protocol.r THEN 1 ELSE 0)

\* A comparison decided by the lower digit, with the dealer secret wrapping
\* the masked index around D.
C29_Witness ==
    /\ protocol.pc = "compared"
    /\ get(protocol.z_prime) = 2
    /\ protocol.r = 3
    /\ protocol.s = params.big_d - 1
    /\ u_revealed = 1

\* The value shared by the e shares of the parties, modulo q.
e_revealed == mod_floor(SumTo([i \in PartyIds |-> get(protocol.parties[i].e)], params.n), params.q)

\* C30: for every z in (-q/2, q/2), every r in [0, L) and s in [0, D), after
\* mod_l_protocol the shares e_i satisfy sum_i e_i = z mod L (mod q), where
\* e = z' - r + L*u, and noisy_decrypt(z) returns (z - (z mod L)) mod q, a
\* multiple of L.
C30_NoiseRemoval ==
    protocol.pc = "denoised" =>
        LET z == get(protocol.z)
            z_prime == reveal([i \in PartyIds |-> get(protocol.parties[i].z_prime)], params.l)
        IN  /\ e_revealed = mod_floor(mod_floor(z, params.big_l), params.q)
            /\ e_revealed = mod_floor(z_prime - protocol.r + params.big_l * u_revealed, params.q)
            /\ get(protocol.out) = mod_floor(z - mod_floor(z, params.big_l), params.q)
            /\ mod_floor(get(protocol.out), params.big_l) = 0

\* A negative z whose masked low bits fall below the mask.
C30_Witness ==
    /\ protocol.pc = "denoised"
    /\ get(protocol.z) = -3
    /\ protocol.r = 3
    /\ u_revealed = 1
    /\ e_revealed = 1
    /\ get(protocol.out) = 4

\* C31: for a fixed ciphertext (a, b) and secret key sk, the value returned by
\* Protocol::decrypt is the same for every dealer secret s in [0, D), every
\* mask r in [0, L) and every outcome of the random splitting of sk, r, s and
\* the gate tables into shares: it is the value below, in which only a, b and
\* sk occur.
C31_OutputIndependentOfDealer ==
    protocol.pc = "decrypted" =>
        get(protocol.out)
            = mod_floor(get(lwe.b) + Pow2(params.l - 1) + Dot(get(lwe.a), lwe.sk), params.q)
                  \div params.big_l

\* A run with a non-zero dealer secret and mask, the shares of r wrapping
\* around q, and output 1.
C31_Witness ==
    /\ protocol.pc = "decrypted"
    /\ get(protocol.s) = params.big_d - 1
    /\ get(protocol.r) = params.big_l - 1
    /\ protocol.seed = MaxSeed
    /\ SumTo([i \in PartyIds |-> get(protocol.parties[i].r)], params.n) >= params.q
    /\ get(protocol.out) = 1

\* The round-r messages of the peers of participant i, in the order pi.
permuted_input(i, r, pi) ==
    LET input == step_input(dist.sent, i, r)
    IN  [k \in 1..(params.n - 1) |-> input[pi[k]]]

\* C32: for steps 2, 3, 4 and 5 (step numbers 1..4), the fields a party writes
\* and the message it emits are the same for every permutation of the list of
\* N-1 incoming peer messages of that round.
C32_ArrivalOrderIndependence ==
    dist.pc = "dealt" =>
        \A i \in PartyIds :
            LET r == dist.next_step[i]
            IN  ( /\ dist.workers[i] # None
                  /\ r \in 1..(STEP_COUNT - 1)
                  /\ \A j \in PartyIds \ {i} : Len(dist.sent[j]) > r )
                => \A pi \in Permutations(1..(params.n - 1)) :
                      execute_step(get(dist.workers[i]), r, permuted_input(i, r, pi))
                          = execute_step(get(dist.workers[i]), r,
                                         step_input(dist.sent, i, r))

\* Party 0 has run step 2 on two different peer messages and holds the sorted
\* list; its peers' messages for step 3 differ too.
C32_Witness ==
    /\ dist.pc = "dealt"
    /\ dist.next_step[0] = 2
    /\ dist.sent[1][2] # dist.sent[2][2]
    /\ IsSet(get(dist.workers[0]).z_prime_all_parties)
    /\ Len(dist.sent[1]) > 2 /\ Len(dist.sent[2]) > 2
    /\ dist.sent[1][3] # dist.sent[2][3]

\* Participant i is called, in this transition, with a step r >= 1 whose
\* predecessor it has not run.
called_early(i) ==
    /\ dist.pc = "dealt"
    /\ dist'.called[i] # dist.called[i]
    /\ get(dist'.called[i]) >= 1
    /\ dist.next_step[i] < get(dist'.called[i])

\* C33: execute_step(r, ...) for r >= 1 on a party that has not executed step
\* r - 1 fails with the missing-field error, the getter naming the field,
\* before any field is written and without emitting a message; a getter never
\* returns a default value for a field that was not set.
C33_ReadBeforeWriteIsError ==
    [][\A i \in PartyIds :
          called_early(i) =>
              /\ dist'.panic[i] = Some(required_field(get(dist'.called[i])))
              /\ dist'.workers[i] = dist.workers[i]
              /\ dist'.sent[i] = dist.sent[i]
              /\ dist'.next_step[i] = dist.next_step[i]]_vars

\* Participant 1 was called with step 4 after running steps 0..2 only: the
\* getter of mac_z panicked and its last message is that of step 2.
C33_Witness ==
    /\ dist.pc = "dealt"
    /\ dist.called[1] = Some(4)
    /\ dist.next_step[1] = 3
    /\ dist.panic[1] = Some("mac_z")
    /\ ~IsSet(get(dist.workers[1]).mac_z)
    /\ Len(dist.sent[1]) = 4

protocol_starts(registry) == {msg \in registry.sent : msg.message = "ProtocolStart"}

\* C35: the discovery server sends ProtocolStart only in the registration
\* event that brings the number of registered participants to exactly N; in
\* that event it sends ProtocolStart to every registered participant, and the
\* file of a participant is completely written before the ProtocolStart for
\* that participant is sent.
C35_ProtocolStartAtNthRegistration ==
    [][LET nth_registration ==
               /\ dist'.event # None
               /\ get(dist'.event).kind = "register"
               /\ Cardinality(dist.participants) = params.n - 1
               /\ Cardinality(dist'.participants) = params.n
       IN  /\ protocol_starts(dist') # {} => nth_registration
           /\ nth_registration =>
                 {msg.to : msg \in protocol_starts(dist')}
                     = {registry_endpoint(dist', name) : name \in dist'.participants}
           /\ \A j \in DOMAIN dist'.walk :
                 dist'.walk[j].op = "send" =>
                     \E earlier \in 1..(j - 1) :
                         dist'.walk[earlier] = [op |-> "write", name |-> dist'.walk[j].name]
           /\ {registry_endpoint(dist', dist'.walk[j].name) :
                   j \in {step \in DOMAIN dist'.walk : dist'.walk[step].op = "send"}}
                 = {msg.to : msg \in protocol_starts(dist')}]_vars

\* The server without the record of its last event.
registry_state(registry) ==
    [ pc |-> registry.pc, participants |-> registry.participants,
      endpoints |-> registry.endpoints, deals |-> registry.deals,
      deal |-> registry.deal, files |-> registry.files, started |-> registry.started ]

\* C36: after every register, unregister and disconnect event the registry
\* holds exactly the names that were registered and not since unregistered or
\* disconnected, one entry per name; registering a name already present, or
\* unregistering a name not present, changes nothing and sends no message;
\* each successful unregister or disconnect notifies every remaining
\* participant.
C36_RegistryInvariant ==
    [][LET event == get(dist'.event)
           gone == IF event.kind = "unregister" THEN {event.name}
                   ELSE {name \in dist.participants :
                            registry_endpoint(dist, name) = event.endpoint}
       IN  /\ DOMAIN dist'.endpoints = dist'.participants
           /\ event.kind = "register" =>
                 /\ dist'.participants = dist.participants \cup {event.name}
                 /\ \A name \in dist.participants :
                       dist'.endpoints[name] = dist.endpoints[name]
                 /\ event.name \notin dist.participants =>
                       registry_endpoint(dist', event.name) = event.endpoint
                 /\ event.name \in dist.participants =>
                       /\ registry_state(dist') = registry_state(dist)
                       /\ dist'.sent = {}
           /\ event.kind \in {"unregister", "disconnected"} =>
                 /\ dist'.participants = dist.participants \ gone
                 /\ \A name \in dist'.participants :
                       dist'.endpoints[name] = dist.endpoints[name]
                 /\ gone \cap dist.participants = {} =>
                       /\ registry_state(dist') = registry_state(dist)
                       /\ dist'.sent = {}
                 /\ gone \cap dist.participants # {} =>
                       dist'.sent =
                           {send(registry_endpoint(dist', name), "ParticipantNotificationRemoved") :
                               name \in dist'.participants}]_vars

\* The connection of participant 1 goes away after the deal to 0, 1 and 2:
\* the entries of 0 and 2 remain and both are notified.
C36_Witness ==
    /\ dist.event # None
    /\ get(dist.event).kind = "disconnected"
    /\ "name" \in DOMAIN get(dist.event)
    /\ get(dist.event).name = "1"
    /\ dist.participants = {"0", "2"}
    /\ dist.deals = 1
    /\ Cardinality(dist.sent) = 2
    /\ \A msg \in dist.sent : msg.message = "ParticipantNotificationRemoved"

\* The thread has taken the first of the two locks of its path.
between_locks(t) ==
    /\ participant.threads[t] # None
    /\ Len(lock_order(get(participant.threads[t]))) = 2
    /\ get(participant.threads[t]).held = 1

\* C37: in no reachable state do the network event thread and a worker thread
\* each hold one of the two process-wide locks (NETWORK_SENDER and
\* known_participants) while waiting for the other; every code path acquires
\* the two locks in the same order.
C37_NoLockOrderDeadlock ==
    /\ \A t \in PoolThreads :
          ~ /\ holds(participant.threads[EventThread]) # {}
            /\ holds(participant.threads[t]) # {}
            /\ waiting(EventThread)
            /\ waiting(t)
    /\ \A t, other \in Threads :
          (between_locks(t) /\ between_locks(other)) =>
              ("NETWORK_SENDER" \in holds(participant.threads[t])
                   <=> "NETWORK_SENDER" \in holds(participant.threads[other]))

\* The ProtocolExecuteStep tasks participant p has run in this step.
handled_tasks(p) ==
    {task \in net.running[p] : task \notin net'.running[p] /\ task.type = "ProtocolExecuteStep"}

\* C38: a job is reported Finished exactly when its worker executes the fifth
\* step (step index STEP_COUNT - 1); after that no message is sent for the
\* job, and after each of the first four steps the output of the step is
\* broadcast once to every known peer, tagged with the next step number.
C38_JobCompletion ==
    [][\A p \in PartyIds :
          /\ \A task \in handled_tasks(p) :
                LET completed == /\ Len(executed_steps(p)') = Len(executed_steps(p)) + 1
                                 /\ ~net'.crashed[p]
                IN  /\ net'.result[p] = "Finished"
                          <=> (completed /\ task.step_num = STEP_COUNT - 1)
                    /\ \A to \in PartyIds \ {p} :
                          IF completed /\ task.step_num < STEP_COUNT - 1
                          THEN net'.chan[<<p, to>>] =
                                   Append(net.chan[<<p, to>>],
                                          [ type |-> "ProtocolExecuteStep",
                                            participant_num |-> p,
                                            step_num |-> task.step_num + 1,
                                            input_data |-> "bytes_a" ])
                          ELSE net'.chan[<<p, to>>] = net.chan[<<p, to>>]
          /\ net.result[p] = "Finished" =>
                /\ net'.result[p] = "Finished"
                /\ handled_tasks(p) = {}
                /\ \A to \in PartyIds \ {p} :
                      Len(net'.chan[<<p, to>>]) <= Len(net.chan[<<p, to>>])]_vars

\* Participant 0 has run the five steps in order and its job is Finished,
\* with nothing of it left on its connections.
C38_Witness ==
    /\ net.result[0] = "Finished"
    /\ executed_steps(0) = <<0, 1, 2, 3, 4>>
    /\ ~net.crashed[0]
    /\ \A to \in PartyIds \ {0} : net.chan[<<0, to>>] = <<>>
=============================================================================
